---- MODULE Spec2Model ----
(***************************************************************************)
(* A model of air_rs, a 1090 MHz ADS-B receiver: the preamble gate, the    *)
(* Manchester extractors, the CRC-24 engine with single-bit recovery, the  *)
(* message decoder and the demodulation pipeline.                          *)
(*                                                                         *)
(* Option<T> is modelled as a sequence of length at most one: None is the  *)
(* empty sequence and Some(x) is <<x>>.  A Vec<bool> is modelled as the    *)
(* set of the indices (from 0) that hold true.                             *)
(***************************************************************************)
EXTENDS Integers, Sequences, FiniteSets, TLC

VARIABLES
    \* the CRC engine on its own (crc.rs)
    packet,        \* the 14-byte buffer handed to the CRC engine
    calced_crc,    \* extract_packet: get_adsb_crc over the data bytes
    packet_crc,    \* extract_packet: the parity carried by the frame
    recovered,     \* what try_crc_recovery returned
    crc_pc,        \* "idle", "start", "crc", "done"
    \* the demodulator on one window of magnitudes (demod.rs, packet.rs)
    window,        \* 16 preamble samples followed by 224 payload samples
    gate,          \* what check_for_adsb_packet returned
    man_rel,       \* what extract_manchester_relative returned
    man_thr,       \* what extract_manchester_threshold returned
    man_old,       \* what adsb.rs extract_manchester returned
    extracted,     \* what extract_packet returned
    adsb_packet,   \* Some(AdsbPacket::new(..)) once a frame was extracted
    demod_pc,      \* "idle", "start", "gated", "relative", "threshold",
                   \* "manchester", "extracted", "done"
    \* the identification decoder on one ME field (msgs.rs)
    id_msg,        \* the 7 bytes handed to AircraftID::new
    aircraft_id,   \* Some(AircraftID::new(id_msg)) once decoded
    ident_pc,      \* "idle", "start", "done"
    \* the pipeline of adsb.rs: source thread, process thread, display thread
    build,         \* "debug" (overflow checks on) or "release" (wrapping)
    source,        \* "sdr" or "playback": which source thread launch_adsb spawned
    data,          \* playback_thread: the samples loaded from the file
    play_i,        \* playback_thread: i
    reads,         \* get_sdr_data_thread: the reads that returned Ok so far
    src_pc,        \* "idle", "run", "done", "panicked"
    raw_chan,      \* the batches queued between tx_raw_sdr and rx_raw_sdr
    raw_tx_open,   \* tx_raw_sdr not yet dropped
    raw_rx_open,   \* rx_raw_sdr not yet dropped
    mag_vec,       \* process_sdr_data_thread: the magnitudes of the batch
    scan_i,        \* process_sdr_data_thread: i
    proc_pc,       \* "idle", "recv", "scan", "done", "panicked"
    msg_chan,      \* the packets queued between tx_adsb_msgs and rx_adsb_msgs
    msg_tx_open,   \* tx_adsb_msgs not yet dropped
    msg_rx_open,   \* rx_adsb_msgs not yet dropped
    printed,       \* the packets the display thread has taken, in order
    display_pc,    \* "idle", "run", "done"
    \* the position decoder on one ME field (msgs.rs)
    pos_msg,       \* the 7 bytes handed to AircraftPosition::new
    aircraft_pos,  \* Some(AircraftPosition::new(pos_msg)) once decoded
    pos_pc,        \* "idle", "start", "done"
    \* the CPR solver on one even/odd pair (aircraft.rs, cpr.rs)
    cpr_even,      \* <<cpr_latitude, cpr_longitude>> of the even message
    cpr_odd,       \* <<cpr_latitude, cpr_longitude>> of the odd message
    cpr_first,     \* "Even" or "Odd": the format received first
    true_lat,      \* Some(latitude the pair was encoded from), or None
    solver,        \* "aircraft" or "cpr": the file whose solver runs
    geo,           \* the Option<GeographicPosition> produced
    cpr_pc,        \* "idle", "start", "done"
    \* the interactive display of tui.rs and the clock it reads
    mode,          \* "Stream" or "Interactive": the DisplayMode of launch_adsb
    clock,         \* the wall clock (Local::now()), in seconds
    aircraft,      \* App.aircraft: the Vec<Aircraft>
    num_packets,   \* App.num_packets
    running,       \* App.running
    app_pc,        \* "idle", "poll", "draw", "events", "done"
    rendered,      \* the rows of the table drawn last
    handled,       \* history: the packets taken from the channel, in order
    arrivals,      \* the number of frames the upstream stage has produced
    \* history of the process thread
    batch_no,      \* the number of batches received so far
    sent           \* the frames sent so far: [batch, pos, packet]

crcVars == <<packet, calced_crc, packet_crc, recovered, crc_pc>>
demodVars == <<window, gate, man_rel, man_thr, man_old, extracted, adsb_packet, demod_pc>>
identVars == <<id_msg, aircraft_id, ident_pc>>
pipeVars == <<build, source, data, play_i, reads, src_pc, raw_chan, raw_tx_open,
              raw_rx_open, mag_vec, scan_i, proc_pc, msg_chan, msg_tx_open,
              msg_rx_open, printed, display_pc>>
posVars == <<pos_msg, aircraft_pos, pos_pc>>
cprVars == <<cpr_even, cpr_odd, cpr_first, true_lat, solver, geo, cpr_pc>>
appVars == <<mode, clock, aircraft, num_packets, running, app_pc, rendered, handled,
             arrivals>>
histVars == <<batch_no, sent>>
vars == <<crcVars, demodVars, identVars, pipeVars, posVars, cprVars, appVars, histVars>>

None == << >>
Some(x) == << x >>

\* (word >> i) & 1
bit_of(word, i) == (word \div (2^i)) % 2

(***************************************************************************)
(* crc.rs                                                                  *)
(***************************************************************************)
GENERATOR == 33551369      \* 0b1_1111_1111_1111_0100_0000_1001
GENERATOR_LEN == 24

\* lines 15-20: the bytes of buf as a vector of bits, most significant first
to_bits(buf) ==
    {p \in 0..(8 * Len(buf) - 1) : bit_of(buf[(p \div 8) + 1], 7 - (p % 8)) = 1}

\* the positions j in 0..=GENERATOR_LEN with (GENERATOR >> (GENERATOR_LEN - j)) & 1 set
generator_bits == {j \in 0..GENERATOR_LEN : bit_of(GENERATOR, GENERATOR_LEN - j) = 1}

\* xor_generator with the loop over j ending before GENERATOR_LEN
xor_generator_short(bits, i, len) ==
    LET g == {i + j : j \in generator_bits \ {GENERATOR_LEN}}
    IN (bits \ g) \cup (g \ bits)

\* lines 26-28: bits[i + j] ^= (GENERATOR >> (GENERATOR_LEN - j)) & 1, j in 0..=24
xor_generator(bits, i, len) ==
    LET g == {i + j : j \in generator_bits}
    IN (bits \ g) \cup (g \ bits)

\* lines 24-30: for i in lo..hi { if bits[i] { xor the generator in at i } }
\* The range is folded in halves, and the left half is evaluated before the
\* right one is entered (an all-false vector is left as it is by every step).
RECURSIVE crc_divide(_, _, _, _)
crc_divide(bits, lo, hi, len) ==
    IF lo >= hi \/ bits = {} THEN bits
    ELSE IF hi = lo + 1
         THEN (IF lo \in bits THEN xor_generator(bits, lo, len) ELSE bits)
         ELSE crc_divide(crc_divide(bits, lo, (lo + hi) \div 2, len),
                         (lo + hi) \div 2, hi, len)

\* lines 32-37: for i in lo..hi { if bits[len - 24 + i] { remainder |= 1 << (23 - i) } }
RECURSIVE crc_remainder(_, _, _, _)
crc_remainder(bits, lo, hi, len) ==
    IF lo >= hi THEN 0
    ELSE IF hi = lo + 1
         THEN (IF (len - GENERATOR_LEN + lo) \in bits
               THEN 2^(GENERATOR_LEN - 1 - lo) ELSE 0)
         ELSE crc_remainder(bits, lo, (lo + hi) \div 2, len)
              + crc_remainder(bits, (lo + hi) \div 2, hi, len)

get_adsb_crc(buf) ==
    LET len == 8 * Len(buf) + GENERATOR_LEN
    IN crc_remainder(crc_divide(to_bits(buf), 0, len - GENERATOR_LEN, len),
                     0, GENERATOR_LEN, len)

\* line 54: byte ^ (1 << (7 - i))
flip_bit(byte, i) ==
    IF bit_of(byte, 7 - i) = 1 THEN byte - 2^(7 - i) ELSE byte + 2^(7 - i)

\* try_flip with the flips of the earlier bits of the byte left in place
try_flip_cumulative(buf, num, i, pkt_crc) ==
    LET augmented_buf == [buf EXCEPT ![num + 1] =
                             (buf[num + 1] % 2^(7 - i)) + 2^(7 - i) * ((2^(i + 1) - 1) - (buf[num + 1] \div 2^(7 - i)))]
        crc == get_adsb_crc(SubSeq(augmented_buf, 1, Len(augmented_buf) - 3))
    IN IF crc = pkt_crc THEN Some(augmented_buf) ELSE None

\* lines 51-60: one pass of the inner loop, for byte num and bit i:
\* Some(augmented_buf) when the recomputed crc equals packet_crc
try_flip(buf, num, i, pkt_crc) ==
    LET augmented_buf == [buf EXCEPT ![num + 1] = flip_bit(buf[num + 1], i)]
        crc == get_adsb_crc(SubSeq(augmented_buf, 1, Len(augmented_buf) - 3))
    IN IF crc = pkt_crc THEN Some(augmented_buf) ELSE None

\* lines 50-62: the passes lo..hi-1 of the two nested loops in their order
\* (pass k is byte k / 8, bit k % 8); the first pass that returns decides
RECURSIVE try_flips(_, _, _, _)
try_flips(buf, lo, hi, pkt_crc) ==
    IF lo >= hi THEN None
    ELSE IF hi = lo + 1 THEN try_flip(buf, lo \div 8, lo % 8, pkt_crc)
    ELSE LET first == try_flips(buf, lo, (lo + hi) \div 2, pkt_crc)
         IN IF first # None THEN first
            ELSE try_flips(buf, (lo + hi) \div 2, hi, pkt_crc)

\* try_crc_recovery with the loop over the data bytes only
try_crc_recovery_data_only(buf, calc_crc, pkt_crc) ==
    try_flips(buf, 0, 8 * (Len(buf) - 3), pkt_crc)

\* lines 49-65
try_crc_recovery(buf, calc_crc, pkt_crc) == try_flips(buf, 0, 8 * Len(buf), pkt_crc)

\* demod.rs lines 72-74: the parity carried in the last three bytes
trailer_crc(pkt) ==
    LET len == Len(pkt)
    IN pkt[len] + 256 * pkt[len - 1] + 65536 * pkt[len - 2]

(***************************************************************************)
(* demod.rs                                                                *)
(***************************************************************************)
\* (x as f32 * 0.9) as u32 and (x as f64 * 0.9) as u32: the truncated product
\* (for magnitudes below 2^24 the float product rounds to the same integer part)
derate(x) == (x * 9) \div 10

\* lines 25-36: the least magnitude at the high indices (min starts at u32::MAX)
min_high(buf, highs) ==
    CHOOSE m \in {buf[h + 1] : h \in highs} : \A h \in highs : m <= buf[h + 1]

\* check_for_adsb_packet with <= in place of < in both comparisons
check_for_adsb_packet_strict(buf) ==
    IF \E high \in {0, 2, 7, 9} :
         \E low \in {1, 3, 4, 5, 6, 8, 10, 11, 12, 13, 14, 15} :
            buf[high + 1] <= buf[low + 1]
    THEN None
    ELSE IF \E high \in {0, 3, 5, 7, 8} : \E low \in {1, 2, 4, 6, 9} :
            buf[high + 16 + 1] <= buf[low + 16 + 1]
         THEN None
         ELSE Some(<<derate(min_high(buf, {0, 2, 7, 9})), 0, 0>>)

\* lines 17-57; buf holds 32 magnitudes, buf[k] of the code is buf[k + 1] here
check_for_adsb_packet(buf) ==
    IF \E high \in {0, 2, 7, 9} :
         \E low \in {1, 3, 4, 5, 6, 8, 10, 11, 12, 13, 14, 15} :
            buf[high + 1] < buf[low + 1]
    THEN None
    ELSE IF \E high \in {0, 3, 5, 7, 8} : \E low \in {1, 2, 4, 6, 9} :
            buf[high + 16 + 1] < buf[low + 16 + 1]
         THEN None
         ELSE Some(<<derate(min_high(buf, {0, 2, 7, 9})), 0, 0>>)

\* lines 106-112: first and second of the pair at index i under the relative rule
relative_pair(buf, i, high) ==
    IF buf[i + 1] > buf[i + 2] THEN <<1, 0>> ELSE <<0, 1>>

\* lines 152-153: first and second of the pair at index i under the threshold rule
threshold_pair(buf, i, high) ==
    <<IF buf[i + 1] > high THEN 1 ELSE 0, IF buf[i + 2] > high THEN 1 ELSE 0>>

\* lines 100-124 and 149-165: the loop over the 8 bits of one block, from bit on,
\* pairs[bit] being <<first, second>>; None when the third error is counted,
\* else Some(symbol)
RECURSIVE manchester_symbol(_, _, _, _)
manchester_symbol(pairs, bit, symbol, errors) ==
    IF bit >= 8 THEN Some(symbol)
    ELSE IF pairs[bit][1] # pairs[bit][2]
         THEN manchester_symbol(pairs, bit + 1,
                                symbol + pairs[bit][1] * 2^(14 - bit * 2)
                                       + pairs[bit][2] * 2^(15 - bit * 2),
                                errors)
         ELSE IF errors + 1 > 2 THEN None
              ELSE manchester_symbol(pairs, bit + 1, symbol, errors + 1)

\* lines 97-130 and 146-171: one symbol per block of 16 samples, errors counted
\* from 0 in each block; None as soon as a block returns None
manchester_blocks(symbols) ==
    IF \E b \in DOMAIN symbols : symbols[b] = None THEN None
    ELSE Some([b \in DOMAIN symbols |-> symbols[b][1]])

\* lines 92-131 (buf.len() is a multiple of 16 in every call)
extract_manchester_relative(buf, high) ==
    manchester_blocks(
        [b \in 1..(Len(buf) \div 16) |->
            manchester_symbol([bit \in 0..7 |->
                                  relative_pair(buf, 16 * (b - 1) + bit * 2, high)],
                              0, 0, 0)])

\* lines 141-172
extract_manchester_threshold(buf, high) ==
    manchester_blocks(
        [b \in 1..(Len(buf) \div 16) |->
            manchester_symbol([bit \in 0..7 |->
                                  threshold_pair(buf, 16 * (b - 1) + bit * 2, high)],
                              0, 0, 0)])

\* decode_symbol with the arms of the match exchanged: (1, 0) sets bit 7 - i
RECURSIVE decode_symbol_exchanged(_, _)
decode_symbol_exchanged(encoded, i) ==
    IF i >= 8 THEN 0
    ELSE (IF bit_of(encoded, 15 - i * 2) = 1 /\ bit_of(encoded, 14 - i * 2) = 0
          THEN 2^(7 - i) ELSE 0)
         + decode_symbol_exchanged(encoded, i + 1)

\* lines 183-199: the byte of one symbol; the pair (hi, lo) = (0, 1) sets bit 7 - i
RECURSIVE decode_symbol(_, _)
decode_symbol(encoded, i) ==
    IF i >= 8 THEN 0
    ELSE (IF bit_of(encoded, 15 - i * 2) = 0 /\ bit_of(encoded, 14 - i * 2) = 1
          THEN 2^(7 - i) ELSE 0)
         + decode_symbol(encoded, i + 1)

\* lines 179-200: always Some
decode_packet(raw_buf) ==
    Some([k \in 1..Len(raw_buf) |-> decode_symbol(raw_buf[k], 0)])

\* lines 65-82
extract_packet(buf, high) ==
    LET extracted_manchester == extract_manchester_relative(buf, derate(high))
    IN IF extracted_manchester = None THEN None
       ELSE LET decoded == decode_packet(extracted_manchester[1])
            IN IF decoded = None THEN None
               ELSE LET pkt == decoded[1]
                        calc == get_adsb_crc(SubSeq(pkt, 1, Len(pkt) - 3))
                    IN IF calc # trailer_crc(pkt)
                       THEN try_crc_recovery(pkt, calc, trailer_crc(pkt))
                       ELSE Some(pkt)

(***************************************************************************)
(* adsb.rs: the extractor of process_sdr_data_thread                       *)
(***************************************************************************)
\* lines 189-210: one pass of the loop, at sample index i; st holds result,
\* inter and errors; None when the pass returns None
extract_manchester_pass(st, buf, high, i) ==
    IF st.errors > 2 THEN None
    ELSE LET boundary == (i % 16 = 0 /\ i # 0)
             result == IF boundary THEN Append(st.result, st.inter) ELSE st.result
             inter == (IF boundary THEN 0 ELSE st.inter)
                      + (IF buf[i + 1] > high THEN 2^(15 - (i % 16)) ELSE 0)
             errors == IF boundary THEN 0 ELSE st.errors
             clean == \/ (buf[i + 1] > high /\ buf[i + 2] < high)
                      \/ (buf[i + 1] < high /\ buf[i + 2] > high)
         IN Some([result |-> result, inter |-> inter,
                  errors |-> IF clean THEN errors ELSE errors + 1])

\* line 188: the passes lo..hi-1 of for i in (0..112*2).step_by(2), pass p being
\* i = 2p; the range is folded in halves, the left half evaluated first
RECURSIVE extract_manchester_loop(_, _, _, _, _)
extract_manchester_loop(st, buf, high, lo, hi) ==
    IF lo >= hi THEN Some(st)
    ELSE IF hi = lo + 1 THEN extract_manchester_pass(st, buf, high, 2 * lo)
    ELSE LET left == extract_manchester_loop(st, buf, high, lo, (lo + hi) \div 2)
         IN IF left = None THEN None
            ELSE extract_manchester_loop(left[1], buf, high, (lo + hi) \div 2, hi)

\* lines 183-213
extract_manchester(buf, high) ==
    LET final == extract_manchester_loop([result |-> << >>, inter |-> 0, errors |-> 0],
                                         buf, high, 0, 112)
    IN IF final = None THEN None ELSE Some(final[1].result)

\* lines 128-153; min starts at 800000
check_preamble(buf) ==
    IF \E high \in {0, 2, 7, 9} :
         \E low \in {1, 3, 4, 5, 6, 8, 10, 11, 12, 13, 14, 15} :
            buf[high + 1] < buf[low + 1]
    THEN None
    ELSE LET least == min_high(buf, {0, 2, 7, 9})
         IN Some(<<derate(IF least < 800000 THEN least ELSE 800000), 0, 0>>)

\* lines 155-175
check_df(buf) ==
    ~ \E high \in {0, 3, 5, 7, 8} : \E low \in {1, 2, 4, 6, 9} :
          buf[high + 1] < buf[low + 1]

\* lines 84-91: the byte of one symbol; (byte >> (14 - i)) & 0x2 is 0b10 when
\* bit 15 - i of the symbol is set
AdsbPacket_decode_symbol(byte) ==
    LET b(i) == IF bit_of(byte, 15 - i) = 1 THEN 2^(7 - (i \div 2)) ELSE 0
    IN b(0) + b(2) + b(4) + b(6) + b(8) + b(10) + b(12) + b(14)

\* lines 79-96
AdsbPacket_decode_packet(raw_buf) ==
    [k \in 1..Len(raw_buf) |-> AdsbPacket_decode_symbol(raw_buf[k])]

(***************************************************************************)
(* msgs.rs                                                                 *)
(***************************************************************************)
\* AircraftPosition::new with the altitude code shifted by 3 in place of 4
AircraftPosition_new_shift3(msg) ==
    LET alt_mode_25 == (msg[2] % 2 = 1)
        altitude == (msg[2] \div 2) * 8 + (msg[3] \div 16)
    IN [kind |-> "AircraftPosition",
        raw_msg |-> msg,
        msg_type |-> msg[1] \div 8,
        surveillance_status |-> (msg[1] \div 2) % 4,
        nic_supplement |-> msg[1] % 2,
        altitude |-> altitude * (IF alt_mode_25 THEN 25 ELSE 100) - 1000,
        cpr_time |-> (msg[3] \div 8) % 2,
        cpr_format |-> IF (msg[3] \div 4) % 2 = 1 THEN "Odd" ELSE "Even",
        cpr_latitude |-> (msg[3] % 4) * 32768 + msg[4] * 128 + (msg[5] \div 2),
        cpr_longitude |-> (msg[5] % 2) * 65536 + msg[6] * 256 + msg[7]]

\* AircraftPosition::new with the low seven bits of msg[4] in the latitude:
\* msg[4] & 0b0111_1111 in place of (msg[4] & 0b1111_1110) >> 1
AircraftPosition_new_lat_overlap(msg) ==
    LET alt_mode_25 == (msg[2] % 2 = 1)
        altitude == (msg[2] \div 2) * 16 + (msg[3] \div 16)
    IN [kind |-> "AircraftPosition",
        raw_msg |-> msg,
        msg_type |-> msg[1] \div 8,
        surveillance_status |-> (msg[1] \div 2) % 4,
        nic_supplement |-> msg[1] % 2,
        altitude |-> altitude * (IF alt_mode_25 THEN 25 ELSE 100) - 1000,
        cpr_time |-> (msg[3] \div 8) % 2,
        cpr_format |-> IF (msg[3] \div 4) % 2 = 1 THEN "Odd" ELSE "Even",
        cpr_latitude |-> (msg[3] % 4) * 32768 + msg[4] * 128 + (msg[5] % 128),
        cpr_longitude |-> (msg[5] % 2) * 65536 + msg[6] * 256 + msg[7]]

\* lines 71-101; msg[k] of the code is msg[k + 1] here
AircraftPosition_new(msg) ==
    LET alt_mode_25 == (msg[2] % 2 = 1)
        altitude == (msg[2] \div 2) * 16 + (msg[3] \div 16)
    IN [kind |-> "AircraftPosition",
        raw_msg |-> msg,
        msg_type |-> msg[1] \div 8,
        surveillance_status |-> (msg[1] \div 2) % 4,
        nic_supplement |-> msg[1] % 2,
        altitude |-> altitude * (IF alt_mode_25 THEN 25 ELSE 100) - 1000,
        cpr_time |-> (msg[3] \div 8) % 2,
        cpr_format |-> IF (msg[3] \div 4) % 2 = 1 THEN "Odd" ELSE "Even",
        cpr_latitude |-> (msg[3] % 4) * 32768 + msg[4] * 128 + (msg[5] \div 2),
        cpr_longitude |-> (msg[5] % 2) * 65536 + msg[6] * 256 + msg[7]]

(***************************************************************************)
(* aircraft.rs and cpr.rs: the CPR solver.  The code computes in f64; the  *)
(* model computes the same expressions exactly.  A latitude is an integer  *)
(* number of units of 1/DEG degree, which holds every candidate latitude   *)
(* exactly; a longitude is a fraction [num, den] of a full turn, that is   *)
(* 360 * num / den degrees.                                                *)
(***************************************************************************)
\* aircraft.rs line 108: CPR_TO_FLOAT
CPR_TO_FLOAT == 131072

\* latitude units per degree: 6 degrees / 2^17 is 177 units and
\* (360 / 59) degrees / 2^17 is 180 units
DEG == 59 * 65536

\* the % of Rust on f64 values that hold integers: the remainder has the sign
\* of the dividend
f64_rem(a, n) == IF a >= 0 THEN a % n ELSE 0 - ((0 - a) % n)

\* aircraft.rs lines 125-130: the greatest latitude, in units, at which
\* floor(2 pi / acos(1 - (1 - cos(pi / 30)) / cos^2(lat))) is still at least
\* 59, 58, ..., 2
NL_BOUND == <<
    40485375, 57334974, 70319443, 81312763, 91039835, 99871986,
    108029558, 115655970, 122850753, 129686315, 136217281, 142486065,
    148526380, 154365555, 160026105, 165526848, 170883705, 176110289,
    181218352, 186218124, 191118580, 195927644, 200652361, 205299025,
    209873293, 214380267, 218824577, 223210434, 227541688, 231821867,
    236054215, 240241726, 244387165, 248493096, 252561898, 256595780,
    260596799, 264566865, 268507752, 272421102, 276308428, 280171110,
    284010393, 287827369, 291622957, 295397870, 299152558, 302887122,
    306601174, 310293606, 313962187, 317602831, 321208167, 324764460,
    328244137, 331583950, 334599738, 336396287>>

\* aircraft.rs lines 117-132 (cpr.rs lines 39-54 are the same)
calc_num_zones(lat) ==
    LET abs == IF lat < 0 THEN 0 - lat ELSE lat
    IN IF lat = 0 THEN 59
       ELSE IF abs = 87 * DEG THEN 2
       ELSE IF abs > 87 * DEG THEN 1
       ELSE 1 + Cardinality({k \in 1..58 : abs <= NL_BOUND[k]})

\* aircraft.rs line 144 (cpr.rs line 71): floor(59 * even - 60 * odd + 0.5)
latitude_index(even_cpr_lat, odd_cpr_lat) ==
    (59 * even_cpr_lat - 60 * odd_cpr_lat + 65536) \div CPR_TO_FLOAT

\* aircraft.rs line 146 (cpr.rs line 73)
even_latitude_of(even_cpr_lat, odd_cpr_lat) ==
    177 * (f64_rem(latitude_index(even_cpr_lat, odd_cpr_lat), 60) * CPR_TO_FLOAT
           + even_cpr_lat)

\* aircraft.rs line 147 (cpr.rs line 74)
odd_latitude_of(even_cpr_lat, odd_cpr_lat) ==
    180 * (f64_rem(latitude_index(even_cpr_lat, odd_cpr_lat), 59) * CPR_TO_FLOAT
           + odd_cpr_lat)

\* aircraft.rs lines 135-160
calculate_latitude(even_cpr_lat, odd_cpr_lat, first) ==
    LET latitude == IF first = "Even" THEN odd_latitude_of(even_cpr_lat, odd_cpr_lat)
                    ELSE even_latitude_of(even_cpr_lat, odd_cpr_lat)
    IN IF latitude > 270 * DEG THEN latitude - 360 * DEG ELSE latitude

\* aircraft.rs lines 162-190
calculate_longitude(even_cpr_long, odd_cpr_long, latitude, first) ==
    LET nz0 == IF first = "Even" THEN calc_num_zones(latitude) - 1
               ELSE calc_num_zones(latitude)
        num_zones == IF nz0 > 1 THEN nz0 ELSE 1
        m == (even_cpr_long * (num_zones - 1) - odd_cpr_long * num_zones + 65536)
                 \div CPR_TO_FLOAT
        num == f64_rem(m, num_zones) * CPR_TO_FLOAT + odd_cpr_long
        den == num_zones * CPR_TO_FLOAT
    IN IF 2 * num > den THEN [num |-> num - den, den |-> den]
       ELSE [num |-> num, den |-> den]

\* aircraft.rs lines 199-205; a pair is <<latitude, longitude>>
calculate_geographic_position(even_cpr_lat_long, odd_cpr_lat_long, first) ==
    LET latitude == calculate_latitude(even_cpr_lat_long[1], odd_cpr_lat_long[1], first)
    IN [latitude |-> latitude,
        longitude |-> calculate_longitude(even_cpr_lat_long[2], odd_cpr_lat_long[2],
                                          latitude, first)]

\* cpr.rs lines 27-31: the two while loops
RECURSIVE normalize_up(_)
normalize_up(lon) ==
    IF 2 * lon.num < 0 - lon.den
    THEN normalize_up([num |-> lon.num + lon.den, den |-> lon.den])
    ELSE lon

RECURSIVE normalize_down(_)
normalize_down(lon) ==
    IF 2 * lon.num > lon.den
    THEN normalize_down([num |-> lon.num - lon.den, den |-> lon.den])
    ELSE lon

normalize_longitude(lon) == normalize_down(normalize_up(lon))

\* cpr.rs lines 63-88: <<latitude, even_latitude, odd_latitude>>
cpr_calculate_latitude(even_cpr_lat, odd_cpr_lat, first) ==
    LET even_latitude == even_latitude_of(even_cpr_lat, odd_cpr_lat)
        odd_latitude == odd_latitude_of(even_cpr_lat, odd_cpr_lat)
        latitude == IF first = "Even" THEN odd_latitude ELSE even_latitude
    IN <<IF latitude > 270 * DEG THEN latitude - 360 * DEG ELSE latitude,
         even_latitude, odd_latitude>>

\* cpr.rs lines 90-126
cpr_calculate_longitude(even_cpr_long, odd_cpr_long, latitude, first) ==
    LET nl == calc_num_zones(latitude)
        nz0 == IF first = "Even" THEN calc_num_zones(latitude - DEG) ELSE nl
        num_zones == IF nz0 > 1 THEN nz0 ELSE 1
        m == (even_cpr_long * (nl - 1) - odd_cpr_long * nl + 65536) \div CPR_TO_FLOAT
        lon_cpr == IF first = "Even" THEN odd_cpr_long ELSE even_cpr_long
    IN normalize_longitude([num |-> f64_rem(m, num_zones) * CPR_TO_FLOAT + lon_cpr,
                            den |-> num_zones * CPR_TO_FLOAT])

\* cpr.rs lines 135-147
cpr_calculate_geographic_position(even_cpr_lat_long, odd_cpr_lat_long, first) ==
    LET lat == cpr_calculate_latitude(even_cpr_lat_long[1], odd_cpr_lat_long[1], first)
    IN IF calc_num_zones(lat[2]) # calc_num_zones(lat[3]) THEN None
       ELSE Some([latitude |-> lat[1],
                  longitude |-> cpr_calculate_longitude(even_cpr_lat_long[2],
                                    odd_cpr_lat_long[2], lat[1], first)])

\* aircraft.rs lines 29-34; now is Local::now()
Aircraft_new(icao, now) ==
    [icao |-> icao, callsign |-> None, altitude |-> 0, geo_position |-> None,
     last_contact |-> now, last_odd_packet |-> None, last_even_packet |-> None]

\* msgs.rs lines 115-117
get_cpr_position(pos) == <<pos.cpr_latitude, pos.cpr_longitude>>

\* handle_packet without the test of lines 37-39: the icao is not compared
Aircraft_handle_packet_any_icao(self, msg) ==
    IF msg.msg.kind = "AircraftPosition"
    THEN LET pos == msg.msg
             seen == [self EXCEPT !.altitude = pos.altitude,
                                  !.last_contact = msg.time_processed]
         IN IF pos.cpr_format = "Even"
            THEN [seen EXCEPT
                    !.geo_position =
                        IF self.last_odd_packet # None
                        THEN Some(calculate_geographic_position(
                                 get_cpr_position(pos),
                                 get_cpr_position(self.last_odd_packet[1]), "Odd"))
                        ELSE self.geo_position,
                    !.last_even_packet = Some(pos)]
            ELSE [seen EXCEPT
                    !.geo_position =
                        IF self.last_even_packet # None
                        THEN Some(calculate_geographic_position(
                                 get_cpr_position(self.last_even_packet[1]),
                                 get_cpr_position(pos), "Even"))
                        ELSE self.geo_position,
                    !.last_odd_packet = Some(pos)]
    ELSE IF msg.msg.kind = "AircraftID"
    THEN [self EXCEPT !.callsign = Some(msg.msg.callsign)]
    ELSE self

\* aircraft.rs lines 36-74: the Aircraft after handle_packet(msg)
Aircraft_handle_packet(self, msg) ==
    IF msg.icao # self.icao THEN self
    ELSE IF msg.msg.kind = "AircraftPosition"
    THEN LET pos == msg.msg
             seen == [self EXCEPT !.altitude = pos.altitude,
                                  !.last_contact = msg.time_processed]
         IN IF pos.cpr_format = "Even"
            THEN [seen EXCEPT
                    !.geo_position =
                        IF self.last_odd_packet # None
                        THEN Some(calculate_geographic_position(
                                 get_cpr_position(pos),
                                 get_cpr_position(self.last_odd_packet[1]), "Odd"))
                        ELSE self.geo_position,
                    !.last_even_packet = Some(pos)]
            ELSE [seen EXCEPT
                    !.geo_position =
                        IF self.last_even_packet # None
                        THEN Some(calculate_geographic_position(
                                 get_cpr_position(self.last_even_packet[1]),
                                 get_cpr_position(pos), "Even"))
                        ELSE self.geo_position,
                    !.last_odd_packet = Some(pos)]
    ELSE IF msg.msg.kind = "AircraftID"
    THEN [self EXCEPT !.callsign = Some(msg.msg.callsign)]
    ELSE self

\* aircraft.rs lines 94-96: get_age at the time now
get_age(self, now) == now - self.last_contact

\* the inner loop of App::run with handled never set: the packet goes to the
\* aircraft of its icao and a new Aircraft is pushed as well
App_handle_always_push(planes, pkt, now) ==
    Append([k \in 1..Len(planes) |-> Aircraft_handle_packet(planes[k], pkt)],
           Aircraft_handle_packet(Aircraft_new(pkt.icao, now), pkt))

\* tui.rs lines 42-54: the packet goes to the first aircraft of its icao, or
\* to a new Aircraft pushed at the end
App_handle(planes, pkt, now) ==
    LET same == {k \in 1..Len(planes) : planes[k].icao = pkt.icao}
    IN IF same # {}
       THEN LET k == CHOOSE i \in same : \A j \in same : i <= j
            IN [planes EXCEPT ![k] = Aircraft_handle_packet(planes[k], pkt)]
       ELSE Append(planes, Aircraft_handle_packet(Aircraft_new(pkt.icao, now), pkt))

\* tui.rs lines 79-90: the rows of the table, one for each aircraft
App_rows(planes, now) ==
    [k \in 1..Len(planes) |->
        [icao |-> planes[k].icao, callsign |-> planes[k].callsign,
         altitude |-> planes[k].altitude, position |-> planes[k].geo_position,
         age |-> get_age(planes[k], now)]]

(***************************************************************************)
(* msgs.rs: AircraftID                                                     *)
(***************************************************************************)
\* line 156: (acc << 8) | byte in a u32; acc is the set of its set bit positions
acc_push(acc, byte) ==
    {p + 8 : p \in {q \in acc : q + 8 <= 31}} \cup {p \in 0..7 : bit_of(byte, p) = 1}

\* acc_chunk with the mask 0x1F
acc_chunk_5bit(acc, bits) ==
    LET b(k) == IF (bits + k) \in acc THEN 2^k ELSE 0
    IN b(0) + b(1) + b(2) + b(3) + b(4)

\* line 161: (acc >> bits) & 0x3F
acc_chunk(acc, bits) ==
    LET b(k) == IF (bits + k) \in acc THEN 2^k ELSE 0
    IN b(0) + b(1) + b(2) + b(3) + b(4) + b(5)

\* line 166: (acc << (6 - bits)) & 0x3F
acc_tail(acc, bits) ==
    LET b(k) == IF k >= 6 - bits /\ (k - (6 - bits)) \in acc THEN 2^k ELSE 0
    IN b(0) + b(1) + b(2) + b(3) + b(4) + b(5)

\* lines 159-162: while bits >= 6 { bits -= 6; out.push(..) }
RECURSIVE drain_chunks(_, _, _)
drain_chunks(out, acc, bits) ==
    IF bits >= 6
    THEN drain_chunks(Append(out, acc_chunk(acc, bits - 6)), acc, bits - 6)
    ELSE [out |-> out, acc |-> acc, bits |-> bits]

\* lines 155-163: the loop over the bytes of input from index k (from 1) on
RECURSIVE chunk_bytes(_, _, _)
chunk_bytes(input, k, st) ==
    IF k > Len(input) THEN st
    ELSE LET next == drain_chunks(st.out, acc_push(st.acc, input[k]), st.bits + 8)
         IN IF next.bits >= 0 THEN chunk_bytes(input, k + 1, next) ELSE next

\* lines 150-170
to_6bit_chunks(input) ==
    LET st == chunk_bytes(input, 1, [out |-> << >>, acc |-> {}, bits |-> 0])
    IN IF st.bits > 0 THEN Append(st.out, acc_tail(st.acc, st.bits)) ELSE st.out

\* lines 172-177
CHAR_CONVERT ==
    <<"#", "A", "B", "C", "D", "E", "F", "G", "H", "I", "J", "K", "L", "M", "N", "O", "P", "Q",
      "R", "S", "T", "U", "V", "W", "X", "Y", "Z", "#", "#", "#", "#", "#", "_", "#", "#", "#",
      "#", "#", "#", "#", "#", "#", "#", "#", "#", "#", "#", "#", "0", "1", "2", "3", "4", "5",
      "6", "7", "8", "9", "#", "#", "#", "#", "#", "#">>

\* lines 185-189: CHAR_CONVERT.get(byte), '?' when out of bounds
char_of(byte) == IF byte + 1 \in DOMAIN CHAR_CONVERT THEN CHAR_CONVERT[byte + 1] ELSE "?"

\* lines 180-201; the callsign is the sequence of its characters
AircraftID_new(msg) ==
    LET msg_6_bit == to_6bit_chunks(SubSeq(msg, 2, Len(msg)))
    IN [kind |-> "AircraftID",
        raw_msg |-> msg,
        msg_type |-> msg[1] \div 8,
        callsign |-> [k \in 1..Len(msg_6_bit) |-> char_of(msg_6_bit[k])]]

(***************************************************************************)
(* packet.rs                                                               *)
(***************************************************************************)
\* lines 25-50; time_processed, the wall clock at construction, is added by
\* stamp
AdsbPacket_new(pkt) ==
    LET msg_type == pkt[5] \div 8
    IN [packet |-> pkt,
        downlink_format |-> pkt[1] \div 8,
        capability |-> (pkt[1] % 2) + 4 * ((pkt[1] \div 4) % 2),
        icao |-> pkt[2] * 65536 + pkt[3] * 256 + pkt[4],
        msg_type |-> msg_type,
        msg |-> IF msg_type \in 1..4 THEN AircraftID_new(SubSeq(pkt, 5, 11))
                ELSE IF msg_type \in 9..18 THEN AircraftPosition_new(SubSeq(pkt, 5, 11))
                ELSE [kind |-> "Uknown", raw_msg |-> SubSeq(pkt, 5, Len(pkt))]]

\* packet.rs line 48 (adsb.rs line 70): time_processed: Local::now()
stamp(pkt, now) == [time_processed |-> now] @@ pkt

(***************************************************************************)
(* adsb.rs: the packet and the threads                                     *)
(***************************************************************************)
\* lines 44-72: the fields are computed from the decoded bytes as in packet.rs
AdsbPacket_new_from_raw(raw_buf) ==
    [raw_manchester |-> raw_buf] @@ AdsbPacket_new(AdsbPacket_decode_packet(raw_buf))

\* utils.rs line 48: the integer part of the square root
isqrt(n) == CHOOSE r \in 0..n : r * r <= n /\ n < (r + 1) * (r + 1)

\* utils.rs lines 46-52; a sample is <<re, im>>
get_magnitude(buf) ==
    [k \in 1..Len(buf) |-> isqrt(buf[k][1] * buf[k][1] + buf[k][2] * buf[k][2])]

PLAYBACK_CHUNK == 10000
\* the step of a scan that skips the preamble and half of the payload
FRAME_SAMPLES_half == 16 + 112
FRAME_SAMPLES == 16 + 112 * 2

\* line 282: i < mag_vec.len() - (16 + 112 * 2) in usize.  "overflow" when the
\* subtraction panics (overflow checks on); with wrapping arithmetic the
\* difference of a shorter batch is above every index
loop_test(bld, len, i) ==
    IF len >= FRAME_SAMPLES THEN (IF i < len - FRAME_SAMPLES THEN "enter" ELSE "leave")
    ELSE IF bld = "debug" THEN "overflow" ELSE "enter"

\* lines 283-296: one pass of the loop body at i; a slice that ends beyond the
\* batch panics
scan_pass(mag, i) ==
    IF i + 16 > Len(mag) THEN [kind |-> "panic"]
    ELSE LET pre == check_preamble(SubSeq(mag, i + 1, i + 16))
         IN IF pre = None THEN [kind |-> "reject"]
            ELSE IF i + 16 + 10 > Len(mag) THEN [kind |-> "panic"]
            ELSE IF ~ check_df(SubSeq(mag, i + 17, i + 16 + 10)) THEN [kind |-> "reject"]
            ELSE IF i + 16 + 112 * 2 > Len(mag) THEN [kind |-> "panic"]
            ELSE LET raw_buf == extract_manchester(SubSeq(mag, i + 17, i + 16 + 112 * 2),
                                                   pre[1][1])
                 IN IF raw_buf = None THEN [kind |-> "reject"]
                    ELSE [kind |-> "emit", packet |-> AdsbPacket_new_from_raw(raw_buf[1])]

(***************************************************************************)
(* Frames on the air, taken from the repository's tests.                   *)
(***************************************************************************)
\* 8D406B902015A678D4D220AA4BDA (demod.rs test_get_adsb_crc)
FrameCrcTest == <<141, 64, 107, 144, 32, 21, 166, 120, 212, 210, 32, 170, 75, 218>>
\* 8d7c6b3020293532d70820fc8090 (aircraft.rs test_aircraft_handle_packet_id)
FrameIdent == <<141, 124, 107, 48, 32, 41, 53, 50, 215, 8, 32, 252, 128, 144>>
\* 8d7c6b30581304f388bb4455896f (aircraft.rs test_aircraft_handle_packet_alt)
FramePos == <<141, 124, 107, 48, 88, 19, 4, 243, 136, 187, 68, 85, 137, 111>>

TestFrames == {FrameCrcTest, FrameIdent, FramePos}

\* 8D40621D58C386435CC412692AD6 and 8D40621D58C382D690C8AC2863A7 (aircraft.rs
\* test_aircraft_handle_packet_fake): an odd and an even position of 40621D
FrameOdd == <<141, 64, 98, 29, 88, 195, 134, 67, 92, 196, 18, 105, 42, 214>>
FrameEven == <<141, 64, 98, 29, 88, 195, 130, 214, 144, 200, 172, 40, 99, 167>>
\* FrameIdent with type code 19, which packet.rs lines 33-39 make an Uknown message
FrameVelocity == [FrameIdent EXCEPT ![5] = 153]

\* an even position of 40621D with raw latitude 69448: with the odd latitude
\* 74158 of FrameOdd the candidates are -14.82 (58 zones) and -14.85 (57 zones)
FrameEvenZone == [FrameEven EXCEPT ![8] = 30]

\* the frames the tracker is given: FramePos is an odd position of 7C6B30
TrackFrames == {FrameOdd, FrameEven, FrameEvenZone, FrameIdent, FramePos, FrameVelocity}

MaxFrames == 3
MaxClock == 11
\* the seconds that pass in one step of the clock
TimeSteps == {10, 11}

\* FrameIdent sent with downlink format 16 (byte 0 = 0x85) and the parity of that
FrameDf16 == <<133, 124, 107, 48, 32, 41, 53, 50, 215, 8, 32, 63, 23, 75>>

\* a frame as received with bit b (0 = top bit of byte 0) inverted; b < 0: intact
Corrupt(frame, b) ==
    IF b < 0 THEN frame
    ELSE [frame EXCEPT ![(b \div 8) + 1] = flip_bit(frame[(b \div 8) + 1], b % 8)]

\* the samples of a frame on the air: the preamble pulses at 0, 2, 7 and 9,
\* then per bit a pulse in the first half (1) or in the second half (0)
Modulate(frame, hi, lo) ==
    [s \in 1..(16 + 16 * Len(frame)) |->
        IF s <= 16 THEN (IF (s - 1) \in {0, 2, 7, 9} THEN hi ELSE lo)
        ELSE LET p == (s - 17) \div 2
                 b == bit_of(frame[(p \div 8) + 1], 7 - (p % 8))
             IN IF ((s - 17) % 2 = 0) = (b = 1) THEN hi ELSE lo]

\* sample k (from 0) of the window replaced by v
Perturb(w, k, v) == [w EXCEPT ![k + 1] = v]

\* the n bit periods from bit first of payload byte byte levelled to level
Smear(w, byte, first, n, level) ==
    [s \in 1..Len(w) |->
        IF (s - 17) \in (16 * byte + 2 * first)..(16 * byte + 2 * (first + n) - 1)
        THEN level ELSE w[s]]

MaxAmbiguous == 4

GateProbes == {Perturb(Modulate(FrameIdent, 100, 50), k, v) : k \in 0..31, v \in {0, 50, 100, 150}}
Received ==
    {Modulate(Corrupt(f, b), 100, 50) : f \in TestFrames, b \in {-1, 5, 37, 87, 88, 111}}
    \cup {Modulate(Corrupt(FrameDf16, 4), 100, 50)}
Smeared ==
    {Smear(Modulate(FrameIdent, 100, 50), byte, first, n, level) :
        byte \in {1, 13}, first \in {0, 4}, n \in 0..MaxAmbiguous, level \in {50, 100}}
    \cup {Smear(Smear(Modulate(FramePos, 100, 50), 1, 0, n, level), 2, 3, n, level) :
             n \in 1..MaxAmbiguous, level \in {50, 100}}
Flat == {[s \in 1..240 |-> c] : c \in {0, 50}}

Windows == GateProbes \cup Received \cup Smeared \cup Flat

\* the ME field of an identification message: type code 4, category 0, and the
\* eight 6-bit character codes packed most significant bit first
PackCallsign(codes) ==
    <<32>> \o [j \in 1..6 |->
                 LET b(t) == bit_of(codes[((8 * (j - 1) + t) \div 6) + 1],
                                    5 - ((8 * (j - 1) + t) % 6)) * 2^(7 - t)
                 IN b(0) + b(1) + b(2) + b(3) + b(4) + b(5) + b(6) + b(7)]

\* 202CC371C32CE0 (msgs.rs test_aircraft_id)
IdentTest == <<32, 44, 195, 113, 195, 44, 224>>

IdentMessages ==
    {PackCallsign([[k \in 1..8 |-> fill] EXCEPT ![pos] = code]) :
        pos \in 1..8, code \in 0..63, fill \in {0, 63}}
    \cup {IdentTest}

\* a window of magnitudes as IQ samples <<re, im>> of those magnitudes
IQ(w) == [k \in 1..Len(w) |-> IF w[k] = 10 THEN <<6, 8>> ELSE <<0 - w[k], 0>>]

\* n samples of noise no window of which has the shape of a preamble
Noise(n) == [k \in 1..n |-> k % 4]

MaxReads == 2

Batches ==
    {<< >>,
     IQ(Noise(30)),
     IQ(SubSeq(Modulate(FrameIdent, 10, 2), 1, 100)),
     IQ(Modulate(FrameIdent, 10, 2)),
     IQ(Noise(2) \o Modulate(FramePos, 10, 2) \o Noise(3)),
     IQ(Noise(2) \o Modulate(Corrupt(FrameIdent, 100), 10, 2) \o Noise(3)),
     IQ([k \in 1..245 |-> 0])}

\* batches that hold two frames: one after the other, and the second begun
\* 132 samples into the first, where its preamble passes for data of the
\* first; and a batch too short to scan
BurstBatches ==
    {IQ(Modulate(FrameIdent, 10, 2) \o Modulate(FramePos, 10, 2) \o Noise(3)),
     IQ(SubSeq(Modulate(FrameIdent, 10, 2), 1, 132) \o Modulate(FramePos, 10, 2)
        \o Noise(3)),
     IQ(Noise(30))}

PlaybackFiles ==
    {<< >>, IQ(Noise(100)), IQ(Noise(19) \o Modulate(FrameIdent, 10, 2))}

CrcIdle ==
    /\ packet = << >> /\ calced_crc = -1 /\ packet_crc = -1
    /\ recovered = None /\ crc_pc = "idle"

DemodIdle ==
    /\ window = << >> /\ gate = None /\ man_rel = None /\ man_thr = None
    /\ man_old = None /\ extracted = None /\ adsb_packet = None /\ demod_pc = "idle"

IdentIdle == id_msg = << >> /\ aircraft_id = None /\ ident_pc = "idle"

PosIdle == pos_msg = << >> /\ aircraft_pos = None /\ pos_pc = "idle"

CprIdle ==
    /\ cpr_even = << >> /\ cpr_odd = << >> /\ cpr_first = "Even" /\ true_lat = None
    /\ solver = "aircraft" /\ geo = None /\ cpr_pc = "idle"

AppIdle ==
    /\ mode = "Stream" /\ clock = 0 /\ aircraft = << >> /\ num_packets = 0
    /\ running = FALSE /\ app_pc = "idle" /\ rendered = << >> /\ handled = << >>
    /\ arrivals = 0

HistIdle == batch_no = 0 /\ sent = << >>

PipeIdle ==
    /\ build = "debug" /\ source = "sdr" /\ data = << >> /\ play_i = 0 /\ reads = 0
    /\ src_pc = "idle" /\ raw_chan = << >> /\ raw_tx_open = FALSE /\ raw_rx_open = FALSE
    /\ mag_vec = << >> /\ scan_i = 0 /\ proc_pc = "idle" /\ msg_chan = << >>
    /\ msg_tx_open = FALSE /\ msg_rx_open = FALSE /\ printed = << >>
    /\ display_pc = "idle"

(***************************************************************************)
(* The CRC engine on its own: a received frame is checked and, whatever    *)
(* the outcome, also put through try_crc_recovery.                         *)
(***************************************************************************)
InitCrc ==
    /\ packet \in {Corrupt(f, b) : f \in TestFrames, b \in -1..111}
    /\ calced_crc = -1
    /\ packet_crc = -1
    /\ recovered = None
    /\ crc_pc = "start"
    /\ DemodIdle /\ IdentIdle /\ PipeIdle /\ PosIdle /\ CprIdle /\ AppIdle /\ HistIdle

\* extract_packet lines 70-74
ComputeCrc ==
    /\ crc_pc = "start"
    /\ calced_crc' = get_adsb_crc(SubSeq(packet, 1, Len(packet) - 3))
    /\ packet_crc' = trailer_crc(packet)
    /\ crc_pc' = "crc"
    /\ UNCHANGED <<packet, recovered, demodVars, identVars, pipeVars, posVars, cprVars, appVars, histVars>>

\* try_crc_recovery called with the values extract_packet computed
Recover ==
    /\ crc_pc = "crc"
    /\ recovered' = try_crc_recovery(packet, calced_crc, packet_crc)
    /\ crc_pc' = "done"
    /\ UNCHANGED <<packet, calced_crc, packet_crc, demodVars, identVars, pipeVars, posVars, cprVars, appVars, histVars>>

NextCrc == ComputeCrc \/ Recover

SpecCrc == InitCrc /\ [][NextCrc]_vars

(***************************************************************************)
(* The demodulator on one window: the gate on the first 32 samples, then,  *)
(* when it accepts, the extractors and extract_packet on the 224 payload   *)
(* samples and AdsbPacket::new on the frame extracted.                     *)
(***************************************************************************)
payload_of(w) == SubSeq(w, 17, 240)

InitDemod ==
    /\ window \in Windows
    /\ gate = None /\ man_rel = None /\ man_thr = None /\ man_old = None
    /\ extracted = None /\ adsb_packet = None
    /\ demod_pc = "start"
    /\ CrcIdle /\ IdentIdle /\ PipeIdle /\ PosIdle /\ CprIdle /\ AppIdle /\ HistIdle

Gate ==
    /\ demod_pc = "start"
    /\ gate' = check_for_adsb_packet(SubSeq(window, 1, 32))
    /\ demod_pc' = "gated"
    /\ UNCHANGED <<window, man_rel, man_thr, man_old, extracted, adsb_packet,
                   crcVars, identVars, pipeVars, posVars, cprVars, appVars, histVars>>

ManchesterRelative ==
    /\ demod_pc = "gated" /\ gate # None
    /\ man_rel' = extract_manchester_relative(payload_of(window), derate(gate[1][1]))
    /\ demod_pc' = "relative"
    /\ UNCHANGED <<window, gate, man_thr, man_old, extracted, adsb_packet,
                   crcVars, identVars, pipeVars, posVars, cprVars, appVars, histVars>>

ManchesterThreshold ==
    /\ demod_pc = "relative"
    /\ man_thr' = extract_manchester_threshold(payload_of(window), gate[1][1])
    /\ demod_pc' = "threshold"
    /\ UNCHANGED <<window, gate, man_rel, man_old, extracted, adsb_packet,
                   crcVars, identVars, pipeVars, posVars, cprVars, appVars, histVars>>

ManchesterOld ==
    /\ demod_pc = "threshold"
    /\ man_old' = extract_manchester(payload_of(window), gate[1][1])
    /\ demod_pc' = "manchester"
    /\ UNCHANGED <<window, gate, man_rel, man_thr, extracted, adsb_packet,
                   crcVars, identVars, pipeVars, posVars, cprVars, appVars, histVars>>

ExtractPacket ==
    /\ demod_pc = "manchester"
    /\ extracted' = extract_packet(payload_of(window), gate[1][1])
    /\ demod_pc' = "extracted"
    /\ UNCHANGED <<window, gate, man_rel, man_thr, man_old, adsb_packet,
                   crcVars, identVars, pipeVars, posVars, cprVars, appVars, histVars>>

NewPacket ==
    /\ demod_pc = "extracted" /\ extracted # None
    /\ adsb_packet' = Some(AdsbPacket_new(extracted[1]))
    /\ demod_pc' = "done"
    /\ UNCHANGED <<window, gate, man_rel, man_thr, man_old, extracted,
                   crcVars, identVars, pipeVars, posVars, cprVars, appVars, histVars>>

NextDemod ==
    \/ Gate
    \/ ManchesterRelative
    \/ ManchesterThreshold
    \/ ManchesterOld
    \/ ExtractPacket
    \/ NewPacket

SpecDemod == InitDemod /\ [][NextDemod]_vars

(***************************************************************************)
(* The identification decoder on one ME field.                             *)
(***************************************************************************)
InitIdent ==
    /\ id_msg \in IdentMessages
    /\ aircraft_id = None
    /\ ident_pc = "start"
    /\ CrcIdle /\ DemodIdle /\ PipeIdle /\ PosIdle /\ CprIdle /\ AppIdle /\ HistIdle

DecodeIdent ==
    /\ ident_pc = "start"
    /\ aircraft_id' = Some(AircraftID_new(id_msg))
    /\ ident_pc' = "done"
    /\ UNCHANGED <<id_msg, crcVars, demodVars, pipeVars, posVars, cprVars, appVars, histVars>>

NextIdent == DecodeIdent

SpecIdent == InitIdent /\ [][NextIdent]_vars

(***************************************************************************)
(* The position decoder on its own: AircraftPosition::new applied to one   *)
(* ME field, as the tests of msgs.rs lines 245-275 do.                     *)
(***************************************************************************)
\* the ME field of the test at msgs.rs line 247 with its 12-bit altitude code
\* replaced by the one holding the 11-bit n around the Q bit q
AltitudeField(n, q) ==
    LET code == (n \div 16) * 32 + q * 16 + (n % 16)
    IN <<88, code \div 16, (code % 16) * 16 + 2, 214, 144, 200, 172>>

\* msgs.rs lines 305, 315: the even and the odd position message of the tests
PosEvenTest == <<88, 195, 130, 214, 144, 200, 172>>
PosOddTest == <<88, 195, 134, 67, 92, 196, 18>>

PositionMessages ==
    {AltitudeField(n, q) : n \in 0..2047, q \in 0..1} \cup {PosEvenTest, PosOddTest}

InitPos ==
    /\ pos_msg \in PositionMessages
    /\ aircraft_pos = None
    /\ pos_pc = "start"
    /\ CrcIdle /\ DemodIdle /\ IdentIdle /\ PipeIdle /\ CprIdle /\ AppIdle /\ HistIdle

DecodePosition ==
    /\ pos_pc = "start"
    /\ aircraft_pos' = Some(AircraftPosition_new(pos_msg))
    /\ pos_pc' = "done"
    /\ UNCHANGED <<pos_msg, crcVars, demodVars, identVars, pipeVars, cprVars, appVars, histVars>>

NextPos == DecodePosition

SpecPos == InitPos /\ [][NextPos]_vars

(***************************************************************************)
(* The CPR solver on its own: calculate_geographic_position applied to one *)
(* even/odd pair, as the tests of aircraft.rs and cpr.rs do.               *)
(***************************************************************************)
\* the 17-bit CPR latitude a transponder sends for the latitude lat (in
\* units), in the even (i = 0) or odd (i = 1) format: the position of lat
\* inside its zone of 6 or 360/59 degrees, rounded to 17 bits
cpr_encode_lat(lat, i) ==
    IF i = 0 THEN ((2 * (lat % (6 * DEG)) + 177) \div 354) % CPR_TO_FLOAT
    ELSE (((lat % (360 * 65536)) + 90) \div 180) % CPR_TO_FLOAT

\* latitudes in (-90, 90) degrees: at, next to and inside the even zones
ZoneOffsets == {0, 177, 1000, DEG, 3 * DEG, 6 * DEG - 1000, 6 * DEG - 177}
TrueLatitudes ==
    {lat \in {z * 6 * DEG + f : z \in (0 - 15)..14, f \in ZoneOffsets} :
        lat > 0 - 90 * DEG /\ lat < 90 * DEG}

\* raw latitude pairs <<even, odd>>: aircraft.rs lines 244-245 and 298-316,
\* cpr.rs lines 192-193, and the corners of the 17-bit range
RawLatitudePairs ==
    {<<93000, 74158>>, <<15489, 30551>>, <<23868, 38688>>,
     <<0, 0>>, <<0, 131071>>, <<131071, 0>>}

\* raw longitude pairs <<even, odd>>: aircraft.rs lines 269-270 and 298-316,
\* cpr.rs lines 201-202, and values at the quarters of the range
RawLongitudePairs ==
    {<<51372, 50194>>, <<111562, 47917>>, <<111509, 47864>>,
     <<0, 0>>, <<0, 65536>>, <<65536, 0>>,
     <<0, 117965>>, <<131071, 131071>>, <<32768, 98304>>}

InitCpr ==
    /\ \E lats \in {<<cpr_encode_lat(lat, 0), cpr_encode_lat(lat, 1), Some(lat)>> :
                        lat \in TrueLatitudes}
                   \cup {<<p[1], p[2], None>> : p \in RawLatitudePairs},
          lons \in RawLongitudePairs :
          /\ cpr_even = <<lats[1], lons[1]>>
          /\ cpr_odd = <<lats[2], lons[2]>>
          /\ true_lat = lats[3]
    /\ cpr_first \in {"Even", "Odd"}
    /\ solver \in {"aircraft", "cpr"}
    /\ geo = None
    /\ cpr_pc = "start"
    /\ CrcIdle /\ DemodIdle /\ IdentIdle /\ PipeIdle /\ PosIdle /\ AppIdle /\ HistIdle

\* aircraft.rs lines 50, 59: Some(calculate_geographic_position(..))
SolveAircraft ==
    /\ cpr_pc = "start" /\ solver = "aircraft"
    /\ geo' = Some(calculate_geographic_position(cpr_even, cpr_odd, cpr_first))
    /\ cpr_pc' = "done"
    /\ UNCHANGED <<cpr_even, cpr_odd, cpr_first, true_lat, solver,
                   crcVars, demodVars, identVars, pipeVars, posVars, appVars, histVars>>

\* cpr.rs lines 135-147
SolveCpr ==
    /\ cpr_pc = "start" /\ solver = "cpr"
    /\ geo' = cpr_calculate_geographic_position(cpr_even, cpr_odd, cpr_first)
    /\ cpr_pc' = "done"
    /\ UNCHANGED <<cpr_even, cpr_odd, cpr_first, true_lat, solver,
                   crcVars, demodVars, identVars, pipeVars, posVars, appVars, histVars>>

NextCpr == SolveAircraft \/ SolveCpr

SpecCpr == InitCpr /\ [][NextCpr]_vars

(***************************************************************************)
(* The pipeline of adsb.rs: launch_adsb spawns a source thread (the SDR or *)
(* the playback file), the process thread and the display thread, joined   *)
(* by two channels.                                                        *)
(***************************************************************************)
InitPipe ==
    /\ build \in {"debug", "release"}
    /\ source \in {"sdr", "playback"}
    /\ data \in (IF source = "playback" THEN PlaybackFiles ELSE {<< >>})
    /\ play_i = 0 /\ reads = 0 /\ src_pc = "run"
    /\ raw_chan = << >> /\ raw_tx_open = TRUE /\ raw_rx_open = TRUE
    /\ mag_vec = << >> /\ scan_i = 0 /\ proc_pc = "recv"
    /\ msg_chan = << >> /\ msg_tx_open = TRUE /\ msg_rx_open = TRUE
    /\ printed = << >> /\ display_pc = "run"
    /\ CrcIdle /\ DemodIdle /\ IdentIdle /\ PosIdle /\ CprIdle /\ AppIdle /\ HistIdle

\* get_sdr_data_thread lines 247-258: a read that returns Ok(len) with the
\* samples buf, one of the batches on the air, then the send; the thread
\* ends when the send fails
SdrReadFrom(air) ==
    /\ source = "sdr" /\ src_pc = "run" /\ reads < MaxReads
    /\ \E buf \in air :
          IF raw_rx_open
          THEN raw_chan' = Append(raw_chan, buf) /\ UNCHANGED <<src_pc, raw_tx_open>>
          ELSE src_pc' = "done" /\ raw_tx_open' = FALSE /\ UNCHANGED raw_chan
    /\ reads' = reads + 1
    /\ UNCHANGED <<build, source, data, play_i, raw_rx_open, mag_vec, scan_i, proc_pc,
                   msg_chan, msg_tx_open, msg_rx_open, printed, display_pc,
                   crcVars, demodVars, identVars, posVars, cprVars, appVars, histVars>>

SdrRead == SdrReadFrom(Batches)

\* playback_thread lines 264-273: one pass of the loop; data[i..i+10000] panics
\* when the file ends before i + 10000
PlaybackRead ==
    /\ source = "playback" /\ src_pc = "run"
    /\ IF play_i + PLAYBACK_CHUNK > Len(data)
       THEN src_pc' = "panicked" /\ raw_tx_open' = FALSE /\ UNCHANGED <<play_i, raw_chan>>
       ELSE /\ play_i' = play_i + PLAYBACK_CHUNK
            /\ IF raw_rx_open
               THEN /\ raw_chan' = Append(raw_chan,
                                          SubSeq(data, play_i + 1, play_i + PLAYBACK_CHUNK))
                    /\ UNCHANGED <<src_pc, raw_tx_open>>
               ELSE src_pc' = "done" /\ raw_tx_open' = FALSE /\ UNCHANGED raw_chan
    /\ UNCHANGED <<build, source, data, reads, raw_rx_open, mag_vec, scan_i, proc_pc,
                   msg_chan, msg_tx_open, msg_rx_open, printed, display_pc,
                   crcVars, demodVars, identVars, posVars, cprVars, appVars, histVars>>

\* process_sdr_data_thread lines 278-281: a batch is received
ProcRecv ==
    /\ proc_pc = "recv" /\ raw_chan # << >>
    /\ mag_vec' = get_magnitude(Head(raw_chan))
    /\ raw_chan' = Tail(raw_chan)
    /\ scan_i' = 0
    /\ proc_pc' = "scan"
    /\ batch_no' = batch_no + 1
    /\ UNCHANGED <<build, source, data, play_i, reads, src_pc, raw_tx_open, raw_rx_open,
                   msg_chan, msg_tx_open, msg_rx_open, printed, display_pc, sent,
                   crcVars, demodVars, identVars, posVars, cprVars, appVars>>

\* line 278: recv fails once the sender is dropped and the channel is empty;
\* the thread returns and drops its ends of the two channels
ProcClosed ==
    /\ proc_pc = "recv" /\ raw_chan = << >> /\ ~ raw_tx_open
    /\ proc_pc' = "done"
    /\ raw_rx_open' = FALSE
    /\ msg_tx_open' = FALSE
    /\ UNCHANGED <<build, source, data, play_i, reads, src_pc, raw_chan, raw_tx_open,
                   mag_vec, scan_i, msg_chan, msg_rx_open, printed, display_pc,
                   crcVars, demodVars, identVars, posVars, cprVars, appVars, histVars>>

\* the thread panics: it unwinds and drops its ends of the two channels
ProcPanics ==
    /\ proc_pc' = "panicked"
    /\ raw_rx_open' = FALSE
    /\ raw_chan' = << >>
    /\ msg_tx_open' = FALSE
    /\ UNCHANGED <<scan_i, msg_chan, sent>>

\* lines 282-297: the loop test and one pass of the loop; a packet is stamped
\* with the clock when it is built and sent if the receiver still exists
ProcScan ==
    /\ proc_pc = "scan"
    /\ LET test == loop_test(build, Len(mag_vec), scan_i)
           pass == scan_pass(mag_vec, scan_i)
       IN IF test = "overflow" THEN ProcPanics
          ELSE IF test = "leave"
               THEN /\ proc_pc' = "recv"
                    /\ UNCHANGED <<scan_i, msg_chan, raw_chan, raw_rx_open, msg_tx_open,
                                   sent>>
          ELSE IF pass.kind = "panic" THEN ProcPanics
          ELSE IF pass.kind = "reject"
               THEN /\ scan_i' = scan_i + 1
                    /\ UNCHANGED <<proc_pc, msg_chan, raw_chan, raw_rx_open, msg_tx_open,
                                   sent>>
          ELSE IF msg_rx_open
               THEN /\ msg_chan' = Append(msg_chan, stamp(pass.packet, clock))
                    /\ sent' = Append(sent, [batch |-> batch_no, pos |-> scan_i,
                                             packet |-> msg_chan'[Len(msg_chan')]])
                    /\ scan_i' = scan_i + FRAME_SAMPLES
                    /\ UNCHANGED <<proc_pc, raw_chan, raw_rx_open, msg_tx_open>>
               ELSE /\ proc_pc' = "recv"
                    /\ UNCHANGED <<scan_i, msg_chan, raw_chan, raw_rx_open, msg_tx_open,
                                   sent>>
    /\ UNCHANGED <<build, source, data, play_i, reads, src_pc, raw_tx_open, mag_vec,
                   msg_rx_open, printed, display_pc, batch_no,
                   crcVars, demodVars, identVars, posVars, cprVars, appVars>>

\* launch_adsb lines 367-371 (DisplayMode::Stream): a packet is taken and printed
DisplayRecv ==
    /\ display_pc = "run" /\ msg_chan # << >>
    /\ printed' = Append(printed, Head(msg_chan))
    /\ msg_chan' = Tail(msg_chan)
    /\ UNCHANGED <<build, source, data, play_i, reads, src_pc, raw_chan, raw_tx_open,
                   raw_rx_open, mag_vec, scan_i, proc_pc, msg_tx_open, msg_rx_open,
                   display_pc, crcVars, demodVars, identVars, posVars, cprVars, appVars, histVars>>

\* line 368: recv fails once the sender is dropped and the channel is empty
DisplayClosed ==
    /\ display_pc = "run" /\ msg_chan = << >> /\ ~ msg_tx_open
    /\ display_pc' = "done"
    /\ msg_rx_open' = FALSE
    /\ UNCHANGED <<build, source, data, play_i, reads, src_pc, raw_chan, raw_tx_open,
                   raw_rx_open, mag_vec, scan_i, proc_pc, msg_chan, msg_tx_open,
                   printed, crcVars, demodVars, identVars, posVars, cprVars, appVars, histVars>>

NextPipe ==
    \/ SdrRead
    \/ PlaybackRead
    \/ ProcRecv
    \/ ProcClosed
    \/ ProcScan
    \/ DisplayRecv
    \/ DisplayClosed

SpecPipe == InitPipe /\ [][NextPipe]_vars

(***************************************************************************)
(* tui.rs: App::run, the display thread of DisplayMode::Interactive.       *)
(***************************************************************************)
\* AppRecv on a channel that hands out its newest packet first
AppRecv_newest_first ==
    /\ app_pc = "poll" /\ msg_chan # << >>
    /\ num_packets' = num_packets + 1
    /\ aircraft' = App_handle(aircraft, msg_chan[Len(msg_chan)], clock)
    /\ handled' = Append(handled, msg_chan[Len(msg_chan)])
    /\ msg_chan' = SubSeq(msg_chan, 1, Len(msg_chan) - 1)
    /\ UNCHANGED <<build, source, data, play_i, reads, src_pc, raw_chan, raw_tx_open,
                   raw_rx_open, mag_vec, scan_i, proc_pc, msg_tx_open, msg_rx_open,
                   printed, display_pc, mode, clock, running, app_pc, rendered, arrivals,
                   crcVars, demodVars, identVars, posVars, cprVars, histVars>>

\* tui.rs lines 40-55: try_recv returns a packet, which goes to the store
AppRecv ==
    /\ app_pc = "poll" /\ msg_chan # << >>
    /\ num_packets' = num_packets + 1
    /\ aircraft' = App_handle(aircraft, Head(msg_chan), clock)
    /\ handled' = Append(handled, Head(msg_chan))
    /\ msg_chan' = Tail(msg_chan)
    /\ UNCHANGED <<build, source, data, play_i, reads, src_pc, raw_chan, raw_tx_open,
                   raw_rx_open, mag_vec, scan_i, proc_pc, msg_tx_open, msg_rx_open,
                   printed, display_pc, mode, clock, running, app_pc, rendered, arrivals,
                   crcVars, demodVars, identVars, posVars, cprVars, histVars>>

\* tui.rs line 40: try_recv returns an error (the channel is empty, with or
\* without a sender) and the inner loop ends
AppPollEmpty ==
    /\ app_pc = "poll" /\ msg_chan = << >>
    /\ app_pc' = "draw"
    /\ UNCHANGED <<mode, clock, aircraft, num_packets, running, rendered, handled,
                   arrivals, crcVars, demodVars, identVars, pipeVars, posVars, cprVars,
                   histVars>>

\* tui.rs line 56: terminal.draw with render
AppDraw ==
    /\ app_pc = "draw"
    /\ rendered' = App_rows(aircraft, clock)
    /\ app_pc' = "events"
    /\ UNCHANGED <<mode, clock, aircraft, num_packets, running, handled, arrivals,
                   crcVars, demodVars, identVars, pipeVars, posVars, cprVars, histVars>>

\* tui.rs lines 57, 39 and 114-140: the poll of the keyboard ends without a
\* key or with the key q, which ends the loop; run returns and drops rx
AppEvents ==
    /\ app_pc = "events"
    /\ \E key \in {"none", "q"} :
          IF key = "q"
          THEN /\ running' = FALSE
               /\ app_pc' = "done"
               /\ msg_rx_open' = FALSE
               /\ msg_chan' = << >>
          ELSE /\ app_pc' = "poll"
               /\ UNCHANGED <<running, msg_rx_open, msg_chan>>
    /\ UNCHANGED <<build, source, data, play_i, reads, src_pc, raw_chan, raw_tx_open,
                   raw_rx_open, mag_vec, scan_i, proc_pc, msg_tx_open, printed,
                   display_pc, mode, clock, aircraft, num_packets, rendered, handled,
                   arrivals, crcVars, demodVars, identVars, posVars, cprVars, histVars>>

(***************************************************************************)
(* The pipeline with the interactive display: the threads of launch_adsb   *)
(* with DisplayMode::Interactive, on batches that hold several frames.     *)
(***************************************************************************)
\* the number of queued items a bounded channel would hold
ChannelCapacity == 1

InitFlow ==
    /\ build \in {"debug", "release"}
    /\ source \in {"sdr", "playback"}
    /\ data = (IF source = "playback" THEN IQ(Noise(100)) ELSE << >>)
    /\ play_i = 0 /\ reads = 0 /\ src_pc = "run"
    /\ raw_chan = << >> /\ raw_tx_open = TRUE /\ raw_rx_open = TRUE
    /\ mag_vec = << >> /\ scan_i = 0 /\ proc_pc = "recv"
    /\ msg_chan = << >> /\ msg_tx_open = TRUE /\ msg_rx_open = TRUE
    /\ printed = << >> /\ display_pc = "idle"
    /\ mode = "Interactive" /\ clock = 0 /\ aircraft = << >> /\ num_packets = 0
    /\ running = TRUE /\ app_pc = "poll" /\ rendered = << >> /\ handled = << >>
    /\ arrivals = 0
    /\ CrcIdle /\ DemodIdle /\ IdentIdle /\ PosIdle /\ CprIdle /\ HistIdle

SdrReadBurst == SdrReadFrom(BurstBatches)

NextFlow ==
    \/ SdrReadBurst
    \/ PlaybackRead
    \/ ProcRecv
    \/ ProcClosed
    \/ ProcScan
    \/ AppRecv
    \/ AppPollEmpty
    \/ AppDraw
    \/ AppEvents

SpecFlow == InitFlow /\ [][NextFlow]_vars

\* the steps of each thread
SourceStep == SdrReadBurst \/ PlaybackRead
\* adsb.rs line 278: the blocking recv of the processing thread returns
ProcWait == ProcRecv \/ ProcClosed
AppStep == AppRecv \/ AppPollEmpty \/ AppDraw \/ AppEvents

\* adsb.rs lines 282-297: a pass of the scan loop moves i forward or leaves the
\* loop, so a scheduled processing thread does not stay in the loop for ever.
\* ProcScan can take a step exactly when proc_pc = "scan", which makes this
\* the weak fairness of ProcScan with its enabling condition written out.
ScanFair == ([]<>(proc_pc # "scan")) \/ ([]<><<ProcScan>>_vars)

\* each thread is scheduled again and again: a thread that can take a step
\* takes one.  The key the user presses is not under any fairness: AppEvents
\* is taken, but nothing makes it read a quit key.
SpecFlowLive ==
    /\ SpecFlow
    /\ WF_vars(SourceStep) /\ WF_vars(ProcWait) /\ ScanFair
    /\ WF_vars(AppStep)

(***************************************************************************)
(* The tracker on its own: App::run fed by an upstream stage that builds   *)
(* packets (packet.rs AdsbPacket::new stamps them with the clock), sends   *)
(* them and may end, while the clock advances.                             *)
(***************************************************************************)
InitTrack ==
    /\ build = "debug" /\ source = "sdr" /\ data = << >> /\ play_i = 0 /\ reads = 0
    /\ src_pc = "idle" /\ raw_chan = << >> /\ raw_tx_open = FALSE /\ raw_rx_open = FALSE
    /\ mag_vec = << >> /\ scan_i = 0 /\ proc_pc = "idle"
    /\ msg_chan = << >> /\ msg_tx_open = TRUE /\ msg_rx_open = TRUE
    /\ printed = << >> /\ display_pc = "idle"
    /\ mode = "Interactive" /\ clock = 0 /\ aircraft = << >> /\ num_packets = 0
    /\ running = TRUE /\ app_pc = "poll" /\ rendered = << >> /\ handled = << >>
    /\ arrivals = 0
    /\ CrcIdle /\ DemodIdle /\ IdentIdle /\ PosIdle /\ CprIdle /\ HistIdle

\* the wall clock advances
Tick ==
    /\ \E d \in TimeSteps : clock + d <= MaxClock /\ clock' = clock + d
    /\ UNCHANGED <<mode, aircraft, num_packets, running, app_pc, rendered, handled,
                   arrivals, crcVars, demodVars, identVars, pipeVars, posVars, cprVars,
                   histVars>>

\* adsb.rs lines 290-294: the upstream stage builds a packet from a frame and
\* sends it
FrameArrives ==
    /\ msg_tx_open /\ arrivals < MaxFrames
    /\ arrivals' = arrivals + 1
    /\ \E f \in TrackFrames :
          IF msg_rx_open
          THEN msg_chan' = Append(msg_chan, stamp(AdsbPacket_new(f), clock))
          ELSE UNCHANGED msg_chan
    /\ UNCHANGED <<build, source, data, play_i, reads, src_pc, raw_chan, raw_tx_open,
                   raw_rx_open, mag_vec, scan_i, proc_pc, msg_tx_open, msg_rx_open,
                   printed, display_pc, mode, clock, aircraft, num_packets, running,
                   app_pc, rendered, handled,
                   crcVars, demodVars, identVars, posVars, cprVars, histVars>>

\* adsb.rs line 278: the upstream stage returns and drops its sender
UpstreamCloses ==
    /\ msg_tx_open
    /\ msg_tx_open' = FALSE
    /\ UNCHANGED <<build, source, data, play_i, reads, src_pc, raw_chan, raw_tx_open,
                   raw_rx_open, mag_vec, scan_i, proc_pc, msg_chan, msg_rx_open,
                   printed, display_pc, crcVars, demodVars, identVars, posVars, cprVars,
                   appVars, histVars>>

NextTrack ==
    \/ Tick
    \/ FrameArrives
    \/ UpstreamCloses
    \/ AppRecv
    \/ AppPollEmpty
    \/ AppDraw
    \/ AppEvents

SpecTrack == InitTrack /\ [][NextTrack]_vars

(***************************************************************************)
(* C6.  The textbook remainder: the message polynomial times x^24, reduced *)
(* modulo the generator one message bit at a time in a 24-bit register     *)
(* (reg <- reg * x + b * x^24 mod G).  A register is the set of the        *)
(* exponents whose coefficient is 1.                                       *)
(***************************************************************************)
PolyLow == {p \in 0..(GENERATOR_LEN - 1) : bit_of(GENERATOR, p) = 1}

PolyShift(reg, b) ==
    LET shifted == {p + 1 : p \in reg \ {GENERATOR_LEN - 1}}
    IN IF ((GENERATOR_LEN - 1) \in reg) # b
       THEN (shifted \ PolyLow) \cup (PolyLow \ shifted)
       ELSE shifted

RECURSIVE PolyFold(_, _, _, _)
PolyFold(reg, buf, lo, hi) ==
    IF lo >= hi THEN reg
    ELSE IF hi = lo + 1
         THEN PolyShift(reg, bit_of(buf[(lo \div 8) + 1], 7 - (lo % 8)) = 1)
         ELSE LET left == PolyFold(reg, buf, lo, (lo + hi) \div 2)
              IN IF left = {} THEN PolyFold({}, buf, (lo + hi) \div 2, hi)
                 ELSE PolyFold(left, buf, (lo + hi) \div 2, hi)

RECURSIVE PolyValue(_, _, _)
PolyValue(reg, lo, hi) ==
    IF lo >= hi THEN 0
    ELSE IF hi = lo + 1 THEN (IF lo \in reg THEN 2^lo ELSE 0)
    ELSE PolyValue(reg, lo, (lo + hi) \div 2) + PolyValue(reg, (lo + hi) \div 2, hi)

PolyRemainder(buf) == PolyValue(PolyFold({}, buf, 0, 8 * Len(buf)), 0, GENERATOR_LEN)

DataOf(pkt) == SubSeq(pkt, 1, Len(pkt) - 3)

\* C6: get_adsb_crc over the data bytes is the remainder of the GF(2) division
\* of the data bits followed by 24 zero bits by the generator 0x1FFF409, it is
\* below 2^24, and for 8D406B902015A678D4D220 it is 0xAA4BDA (11160538).
C6_CrcIsPolynomialRemainder ==
    crc_pc # "start" =>
        /\ calced_crc = PolyRemainder(DataOf(packet))
        /\ calced_crc >= 0 /\ calced_crc < 2^GENERATOR_LEN
        /\ (DataOf(packet) = DataOf(FrameCrcTest) => calced_crc = 11160538)

C6_Witness ==
    /\ crc_pc = "crc"
    /\ DataOf(packet) = DataOf(FrameCrcTest)
    /\ calced_crc = 11160538

\* C7: a frame with correct parity in which one of the 88 data bits was
\* inverted is given back by try_crc_recovery exactly as it was sent.
C7_RecoveryRestoresFrame ==
    \A f \in TestFrames : \A b \in 0..87 :
        (crc_pc = "done" /\ packet = Corrupt(f, b)) => recovered = Some(f)

C7_Witness ==
    /\ crc_pc = "done"
    /\ packet = Corrupt(FrameIdent, 37)
    /\ recovered = Some(FrameIdent)

GateRan == demod_pc \notin {"idle", "start"}
RelativeRan == demod_pc \in {"relative", "threshold", "manchester", "extracted", "done"}
ThresholdRan == demod_pc \in {"threshold", "manchester", "extracted", "done"}
OldRan == demod_pc \in {"manchester", "extracted", "done"}
ExtractRan == demod_pc \in {"extracted", "done"}

\* the least and the greatest magnitude of w at the indices idx (from 0)
LeastAt(w, idx) == CHOOSE m \in {w[k + 1] : k \in idx} : \A k \in idx : m <= w[k + 1]
GreatestAt(w, idx) == CHOOSE m \in {w[k + 1] : k \in idx} : \A k \in idx : m >= w[k + 1]

PreambleHighs == {0, 2, 7, 9}
PreambleLows == (0..15) \ PreambleHighs
DfHighs == {16, 19, 21, 23, 24}
DfLows == (16..25) \ DfHighs

\* C1 for extract_packet alone: a frame it returns carries the parity of its
\* data bytes.
ExtractedParityValid ==
    (ExtractRan /\ extracted # None) =>
        get_adsb_crc(SubSeq(extracted[1], 1, 11)) = trailer_crc(extracted[1])

\* C2: a frame made into an AdsbPacket, the only frames the tracker merges, has
\* downlink format 17, whatever window the gate accepted and whether or not
\* recovery changed the frame.
C2_StoredFramesAreDF17 ==
    adsb_packet # None => adsb_packet[1].downlink_format = 17

C5_RawFrameHas14Bytes ==
    /\ (ThresholdRan /\ man_thr # None) => Len(man_thr[1]) = 14
    /\ (RelativeRan /\ man_rel # None) => Len(man_rel[1]) = 14
    /\ (OldRan /\ man_old # None) => Len(man_old[1]) = 14

\* C5 for the extractors of demod.rs alone
DemodRawFrameHas14Bytes ==
    /\ (ThresholdRan /\ man_thr # None) => Len(man_thr[1]) = 14
    /\ (RelativeRan /\ man_rel # None) => Len(man_rel[1]) = 14

\* the bit periods of payload byte byte whose halves do not differ: under the
\* threshold rule both above or both not above high, under the relative rule equal
AmbiguousThreshold(w, high, byte) ==
    Cardinality({bit \in 0..7 :
        (w[17 + 16 * byte + 2 * bit] > high) = (w[18 + 16 * byte + 2 * bit] > high)})
AmbiguousRelative(w, byte) ==
    Cardinality({bit \in 0..7 :
        w[17 + 16 * byte + 2 * bit] = w[18 + 16 * byte + 2 * bit]})

\* C9: under the threshold rule and under the relative rule the extractor
\* returns Some exactly when every byte has at most 2 ambiguous bit periods.
C9_AmbiguityTolerance ==
    /\ ThresholdRan =>
          (man_thr # None <=>
              \A byte \in 0..13 : AmbiguousThreshold(window, gate[1][1], byte) <= 2)
    /\ RelativeRan =>
          (man_rel # None <=> \A byte \in 0..13 : AmbiguousRelative(window, byte) <= 2)

\* C9 for the threshold rule alone
ThresholdAmbiguityTolerance ==
    ThresholdRan =>
        (man_thr # None <=>
            \A byte \in 0..13 : AmbiguousThreshold(window, gate[1][1], byte) <= 2)

(***************************************************************************)
(* The identification decoder's claim.                                     *)
(***************************************************************************)
\* the k-th (from 1) 6-bit group of the 48 bits that follow the first byte
Group(msg, k) ==
    LET b(t) == bit_of(msg[2 + ((6 * (k - 1) + t) \div 8)], 7 - ((6 * (k - 1) + t) % 8))
                * 2^(5 - t)
    IN b(0) + b(1) + b(2) + b(3) + b(4) + b(5)

Letters == <<"A", "B", "C", "D", "E", "F", "G", "H", "I", "J", "K", "L", "M",
             "N", "O", "P", "Q", "R", "S", "T", "U", "V", "W", "X", "Y", "Z">>
Digits == <<"0", "1", "2", "3", "4", "5", "6", "7", "8", "9">>

CallsignChar(code) ==
    IF code \in 1..26 THEN Letters[code]
    ELSE IF code \in 48..57 THEN Digits[code - 47]
    ELSE IF code = 32 THEN "_"
    ELSE "#"

\* C10: the callsign has 8 characters, the k-th being the table entry of the
\* k-th 6-bit group of the 48 bits after the type-code byte: 1..26 give A..Z,
\* 48..57 give 0..9, 32 gives '_' and every other code gives '#'.
C10_CallsignFromGroups ==
    ident_pc = "done" =>
        /\ Len(aircraft_id[1].callsign) = 8
        /\ \A k \in 1..8 : aircraft_id[1].callsign[k] = CallsignChar(Group(id_msg, k))

C10_Witness ==
    /\ ident_pc = "done"
    /\ id_msg = IdentTest
    /\ aircraft_id[1].callsign = <<"K", "L", "M", "1", "0", "2", "3", "_">>

(***************************************************************************)
(* The pipeline's claims.                                                  *)
(***************************************************************************)
\* the packets the process thread has sent so far
Sent == printed \o msg_chan

\* C1: every packet the process thread sends carries the parity of its data:
\* get_adsb_crc over its first 11 bytes is the value of its last 3 bytes.
C1_SentFramesHaveValidParity ==
    \A k \in 1..Len(Sent) :
        /\ Len(Sent[k].packet) >= 11
        /\ get_adsb_crc(SubSeq(Sent[k].packet, 1, 11)) = trailer_crc(Sent[k].packet)

\* C4: a batch of fewer than 240 samples does not make the process thread fail,
\* and a playback file of fewer than 260 samples does not make the source
\* thread panic.
C4_ShortInputHarmless ==
    /\ ~ (proc_pc = "panicked" /\ Len(mag_vec) < FRAME_SAMPLES)
    /\ ~ (src_pc = "panicked" /\ Len(data) < 260)

(***************************************************************************)
(* Altitude                                                                *)
(***************************************************************************)
\* the 12-bit altitude code of an ME field: bits 9..20 of the field
AltitudeCode(msg) == msg[2] * 16 + (msg[3] \div 16)
\* its Q bit (bit 4 of the code) and the 11-bit N left when Q is removed
AltitudeQ(msg) == (AltitudeCode(msg) \div 16) % 2
AltitudeN(msg) == (AltitudeCode(msg) \div 32) * 16 + (AltitudeCode(msg) % 16)

\* C11: decoding the ME field whose altitude code carries N around the Q bit
\* yields N*25 - 1000 feet when Q = 1 and N*100 - 1000 feet when Q = 0, as a
\* signed value, for every 11-bit N and both values of Q.
C11_AltitudeInvertsEncoding ==
    pos_pc = "done" =>
        /\ \E n \in 0..2047, q \in 0..1 :
              /\ AltitudeField(n, q)[2] = pos_msg[2]
              /\ AltitudeField(n, q)[3] \div 16 = pos_msg[3] \div 16
              /\ n = AltitudeN(pos_msg) /\ q = AltitudeQ(pos_msg)
        /\ aircraft_pos[1].altitude =
              AltitudeN(pos_msg) * (IF AltitudeQ(pos_msg) = 1 THEN 25 ELSE 100) - 1000

\* the decoder has run on Q = 0, N = 0 and produced the signed -1000
C11_Witness ==
    /\ pos_pc = "done"
    /\ pos_msg = AltitudeField(0, 0)
    /\ aircraft_pos[1].altitude = -1000

(***************************************************************************)
(* CPR solver                                                              *)
(***************************************************************************)
Abs(x) == IF x < 0 THEN 0 - x ELSE x

\* one CPR quantum of the candidate the solver returns: 6 / 2^17 degrees for
\* the even candidate, (360 / 59) / 2^17 degrees for the odd one
Quantum == IF cpr_first = "Even" THEN 180 ELSE 177

\* C13: for every even/odd pair of raw CPR latitudes encoded from one true
\* latitude in (-90, 90), the latitude the solver returns is within one CPR
\* quantum of that latitude and lies in [-90, 90], also when the latitude
\* index j is negative.
C13_LatitudeWithinQuantum ==
    (cpr_pc = "done" /\ true_lat # None /\ geo # None) =>
        /\ Abs(geo[1].latitude - true_lat[1]) <= Quantum
        /\ Abs(geo[1].latitude) <= 90 * DEG

\* C14: every longitude the solver returns, for every pair of raw longitudes,
\* latitude and frame order, lies in (-180, 180].
C14_LongitudeHalfOpen ==
    (cpr_pc = "done" /\ geo # None) =>
        /\ 2 * geo[1].longitude.num > 0 - geo[1].longitude.den
        /\ 2 * geo[1].longitude.num <= geo[1].longitude.den

(***************************************************************************)
(* Tracker                                                                 *)
(***************************************************************************)
\* the Aircraft of the store that packets of this icao go to, as an Option
PlaneOf(planes, icao) ==
    LET same == {k \in 1..Len(planes) : planes[k].icao = icao}
    IN IF same = {} THEN None
       ELSE Some(planes[CHOOSE i \in same : \A j \in same : i <= j])

GeoOf(planes, icao) ==
    IF PlaneOf(planes, icao) = None THEN None
    ELSE PlaneOf(planes, icao)[1].geo_position

\* the reception time of the position frame of this icao and format that the
\* store holds: that of the last such frame handled
StoredTime(icao, format) ==
    LET idx == {k \in 1..Len(handled) :
                   /\ handled[k].icao = icao
                   /\ handled[k].msg.kind = "AircraftPosition"
                   /\ handled[k].msg.cpr_format = format}
    IN IF idx = {} THEN None
       ELSE Some(handled[CHOOSE i \in idx : \A j \in idx : i >= j].time_processed)

Opposite(format) == IF format = "Even" THEN "Odd" ELSE "Even"

\* the frame at the head of the channel is a position frame whose opposite
\* slot holds a frame received at most gap seconds before it
PairWithin(p, gap) ==
    /\ p.msg.kind = "AircraftPosition"
    /\ StoredTime(p.icao, Opposite(p.msg.cpr_format)) # None
    /\ p.time_processed - StoredTime(p.icao, Opposite(p.msg.cpr_format))[1] <= gap

\* C12: when a position frame arrives more than 10 s after the stored frame
\* of the opposite parity, the altitude is updated and the resolved position
\* is left unchanged: the position of an aircraft only changes when a frame
\* completes an even/odd pair received at most 10 s apart.
C12_StalePairNotResolved ==
    [][(app_pc = "poll" /\ msg_chan # << >> /\ handled' # handled) =>
          LET p == Head(msg_chan)
          IN /\ (p.msg.kind = "AircraftPosition" =>
                    PlaneOf(aircraft', p.icao)[1].altitude = p.msg.altitude)
             /\ (GeoOf(aircraft', p.icao) # GeoOf(aircraft, p.icao) => PairWithin(p, 10))
      ]_vars

\* C15: the rows rendered are sorted ascending by age, after any sequence of
\* received frames.
C15_RenderedSortedByAge ==
    \A i \in 1..Len(rendered), j \in 1..Len(rendered) :
        i < j => rendered[i].age <= rendered[j].age

\* C20: after the store handles a frame (Ident, AirbornePosition or Unknown),
\* the last_contact of the aircraft of its icao is the frame's reception time.
C20_LastContactIsReceptionTime ==
    handled # << >> =>
        LET p == handled[Len(handled)]
        IN /\ PlaneOf(aircraft, p.icao) # None
           /\ PlaneOf(aircraft, p.icao)[1].last_contact = p.time_processed

(***************************************************************************)
(* Pipeline with the interactive display                                   *)
(***************************************************************************)
\* the samples of one frame: 16 of preamble and 224 of payload
FrameLength == 16 + 224

\* C18: the preamble start positions of any two frames emitted from one
\* batch differ by at least 240 samples.
C18_EmittedFramesDoNotOverlap ==
    \A i \in 1..Len(sent), j \in 1..Len(sent) :
        (i < j /\ sent[i].batch = sent[j].batch) =>
            sent[j].pos - sent[i].pos >= FrameLength

\* two frames of the first batch were emitted, and the second batch was
\* scanned to its end with a frame emitted from it
C18_Witness ==
    /\ Len(sent) >= 2 /\ sent[1].batch = sent[2].batch
    /\ proc_pc = "recv" /\ batch_no = 2
    /\ \E k \in 1..Len(sent) : sent[k].batch = 2

SentPackets == [k \in 1..Len(sent) |-> sent[k].packet]

\* C19 as stated: the tracker receives the frames in the order of their
\* preamble positions within a batch and the frames of an earlier batch
\* before those of a later one; between the send and the receive no frame is
\* reordered, duplicated or dropped, so every frame sent is received or
\* still queued.
C19_NoFrameDropped ==
    /\ \A i \in 1..Len(sent), j \in 1..Len(sent) :
          i < j => \/ sent[i].batch < sent[j].batch
                   \/ (sent[i].batch = sent[j].batch /\ sent[i].pos < sent[j].pos)
    /\ handled \o msg_chan = SentPackets

\* C19: the frames are sent in the order of their batches and preamble
\* positions, the tracker receives them in the order sent, without gap or
\* repetition, and while App::run has not returned every frame sent is
\* received or still queued.
C19_FramesArriveInOrder ==
    /\ \A i \in 1..Len(sent), j \in 1..Len(sent) :
          i < j => \/ sent[i].batch < sent[j].batch
                   \/ (sent[i].batch = sent[j].batch /\ sent[i].pos < sent[j].pos)
    /\ Len(handled) <= Len(sent)
    /\ handled = SubSeq(SentPackets, 1, Len(handled))
    /\ (app_pc # "done" => handled \o msg_chan = SentPackets)

\* the tracker has received the two different frames of one batch and a
\* frame of the next batch
C19_Witness ==
    /\ Len(handled) >= 3
    /\ handled[1].msg.kind = "AircraftID" /\ handled[2].msg.kind = "AircraftPosition"
    /\ sent[1].batch = 1 /\ sent[2].batch = 1 /\ sent[3].batch = 2

\* C16: the two channels are bounded: the batches queued between the source
\* and the process thread, and the frames queued between the process thread
\* and the tracker, never exceed a fixed capacity.
C16_ChannelsBounded ==
    /\ Len(raw_chan) <= ChannelCapacity
    /\ Len(msg_chan) <= ChannelCapacity

\* the process thread's half on its own: recv fails on a closed and drained
\* channel and the thread ends (adsb.rs line 278)
DemodStageTerminates ==
    (~ raw_tx_open /\ raw_chan = << >>) ~> (proc_pc \in {"done", "panicked"})

\* C17: once a stage's input channel has been closed by its upstream end and
\* drained, the stage eventually terminates, for the process thread and for
\* the tracker.
C17_StagesTerminate ==
    /\ DemodStageTerminates
    /\ (~ msg_tx_open /\ msg_chan = << >>) ~> (app_pc = "done")

(***************************************************************************)
(* Tracker: zone mismatch                                                  *)
(***************************************************************************)
\* the slot of the aircraft that holds the last frame of this format
SlotOf(plane, format) ==
    IF format = "Even" THEN plane.last_even_packet ELSE plane.last_odd_packet

\* the position frame p completes a pair with the stored frame of the opposite
\* format, and the two candidate latitudes of the pair have different numbers
\* of longitude zones (cpr.rs line 138)
ZoneMismatch(planes, p) ==
    /\ p.msg.kind = "AircraftPosition"
    /\ PlaneOf(planes, p.icao) # None
    /\ LET older == SlotOf(PlaneOf(planes, p.icao)[1], Opposite(p.msg.cpr_format))
       IN /\ older # None
          /\ LET even == IF p.msg.cpr_format = "Even" THEN p.msg ELSE older[1]
                 odd == IF p.msg.cpr_format = "Odd" THEN p.msg ELSE older[1]
                 lat == cpr_calculate_latitude(even.cpr_latitude, odd.cpr_latitude,
                                               Opposite(p.msg.cpr_format))
             IN calc_num_zones(lat[2]) # calc_num_zones(lat[3])

\* C21: when the two candidate latitudes of a pair fall in different
\* longitude-zone counts, the aircraft keeps its previous position (possibly
\* none) and the slot of the older parity is emptied.
C21_ZoneMismatchKeepsPosition ==
    [][(app_pc = "poll" /\ msg_chan # << >> /\ handled' # handled
            /\ ZoneMismatch(aircraft, Head(msg_chan))) =>
          LET p == Head(msg_chan)
          IN /\ GeoOf(aircraft', p.icao) = GeoOf(aircraft, p.icao)
             /\ SlotOf(PlaneOf(aircraft', p.icao)[1], Opposite(p.msg.cpr_format)) = None
      ]_vars

\* a pair with a zone mismatch has been handled
C21_MismatchHandled ==
    \E k \in 2..Len(handled) :
        /\ handled[k].packet = FrameEvenZone
        /\ \E i \in 1..(k - 1) : handled[i].packet = FrameOdd

(***************************************************************************)
(* CPR longitude: the standard formulation                                 *)
(***************************************************************************)
\* the longitude of the standard formulation as a fraction of a full turn:
\* m = floor(lon_even * (NL - 1) - lon_odd * NL + 0.5) with NL = NL(latitude);
\* newer Even: n = NL and the even longitude; newer Odd: n = max(NL - 1, 1)
\* and the odd longitude; mod is the non-negative remainder
StandardLongitude(even_cpr_long, odd_cpr_long, latitude, first) ==
    LET NL == calc_num_zones(latitude)
        m == (even_cpr_long * (NL - 1) - odd_cpr_long * NL + 65536) \div CPR_TO_FLOAT
        n == IF first = "Odd" THEN NL ELSE IF NL - 1 > 1 THEN NL - 1 ELSE 1
        lon_cpr == IF first = "Odd" THEN even_cpr_long ELSE odd_cpr_long
    IN [num |-> (m % n) * CPR_TO_FLOAT + lon_cpr, den |-> n * CPR_TO_FLOAT]

\* two fractions of a turn are the same angle: they differ by whole turns
SameAngle(a, b) ==
    LET na == a.den \div CPR_TO_FLOAT
        nb == b.den \div CPR_TO_FLOAT
    IN (a.num * nb - b.num * na) % (na * nb * CPR_TO_FLOAT) = 0

\* C22: the longitude the solver returns is that of the standard formulation
\* for the returned latitude, for both orders of the pair.
C22_LongitudeIsStandard ==
    (cpr_pc = "done" /\ geo # None) =>
        SameAngle(geo[1].longitude,
                  StandardLongitude(cpr_even[2], cpr_odd[2], geo[1].latitude, cpr_first))

(***************************************************************************)
(* AdsbPacket::new on its own: a frame of 14 bytes, with every value of    *)
(* byte 0 and every type code, is made into a packet.                      *)
(***************************************************************************)
\* the identification frame with every first byte, and the identification and
\* the position frame with every type code in the top five bits of byte 4
HeaderFrames ==
    {[FrameIdent EXCEPT ![1] = b] : b \in 0..255}
        \cup {[f EXCEPT ![5] = 8 * tc + (f[5] % 8)] : f \in {FrameIdent, FramePos},
                                                     tc \in 0..31}

InitPacket ==
    /\ extracted \in {Some(f) : f \in HeaderFrames}
    /\ window = << >> /\ gate = None /\ man_rel = None /\ man_thr = None
    /\ man_old = None /\ adsb_packet = None
    /\ demod_pc = "extracted"
    /\ CrcIdle /\ IdentIdle /\ PipeIdle /\ PosIdle /\ CprIdle /\ AppIdle /\ HistIdle

NextPacket == NewPacket

SpecPacket == InitPacket /\ [][NextPacket]_vars

\* C23: for every value of byte 0, the decoded downlink format is its top five
\* bits and the decoded capability is its low three bits.
C23_HeaderSplit ==
    (demod_pc = "done" /\ adsb_packet # None) =>
        /\ adsb_packet[1].downlink_format = extracted[1][1] \div 8
        /\ adsb_packet[1].capability = extracted[1][1] % 8

\* C24: the payload is dispatched by the type code alone: 1-4 give an
\* identification, 9-18 an airborne position, and every other type code an
\* unknown message whose payload is the 7 ME bytes (frame bytes 4-10).
C24_DispatchByTypeCode ==
    (demod_pc = "done" /\ adsb_packet # None) =>
        LET tc == extracted[1][5] \div 8
            msg == adsb_packet[1].msg
        IN /\ (tc \in 1..4 <=> msg.kind = "AircraftID")
           /\ (tc \in 9..18 <=> msg.kind = "AircraftPosition")
           /\ (tc \notin (1..4) \cup (9..18) =>
                  msg.kind = "Uknown" /\ msg.raw_msg = SubSeq(extracted[1], 5, 11))

(***************************************************************************)
(* The position decoder on ME fields whose CPR bits vary: bytes 2 to 6 of  *)
(* the tested message, of an empty and of a full one take, one at a time,  *)
(* each single bit and the mixed patterns.                                 *)
(***************************************************************************)
BytePatterns == {2^k : k \in 0..7} \cup {0, 255, 85, 170}

CprFieldMessages ==
    {[base EXCEPT ![k] = v] :
        base \in {PosEvenTest, <<88, 0, 0, 0, 0, 0, 0>>, <<88, 255, 255, 255, 255, 255, 255>>},
        k \in 3..7, v \in BytePatterns}
        \cup {PosEvenTest, PosOddTest}

InitPosBits ==
    /\ pos_msg \in CprFieldMessages
    /\ aircraft_pos = None
    /\ pos_pc = "start"
    /\ CrcIdle /\ DemodIdle /\ IdentIdle /\ PipeIdle /\ CprIdle /\ AppIdle /\ HistIdle

SpecPosBits == InitPosBits /\ [][NextPos]_vars

\* C25: cpr_latitude = (ME[2] mod 4) * 2^15 + ME[3] * 2^7 + (ME[4] div 2) and
\* cpr_longitude = (ME[4] mod 2) * 2^16 + ME[5] * 2^8 + ME[6]; both are below
\* 2^17, and every bit of ME bytes 3-6 lands in exactly one of the two
\* fields: the bytes are read back from the fields.
C25_CprFieldsPartitionBits ==
    (pos_pc = "done" /\ aircraft_pos # None) =>
        LET ME == [k \in 0..6 |-> pos_msg[k + 1]]
            lat == aircraft_pos[1].cpr_latitude
            lon == aircraft_pos[1].cpr_longitude
        IN /\ lat = (ME[2] % 4) * 2^15 + ME[3] * 2^7 + (ME[4] \div 2)
           /\ lon = (ME[4] % 2) * 2^16 + ME[5] * 2^8 + ME[6]
           /\ lat \in 0..(2^17 - 1) /\ lon \in 0..(2^17 - 1)
           /\ ME[3] = (lat \div 2^7) % 2^8
           /\ ME[4] = (lat % 2^7) * 2 + (lon \div 2^16)
           /\ ME[5] = (lon \div 2^8) % 2^8
           /\ ME[6] = lon % 2^8

\* the even message of the tests has been decoded to 93000 and 51372
\* (msgs.rs lines 309-310)
C25_Witness ==
    /\ pos_pc = "done" /\ pos_msg = PosEvenTest
    /\ aircraft_pos[1].cpr_latitude = 93000
    /\ aircraft_pos[1].cpr_longitude = 51372

(***************************************************************************)
(* decode_packet on its own, as the tests of demod.rs lines 320-333 call   *)
(* it: man_thr holds the symbols handed over, extracted what decode_packet *)
(* returned.                                                               *)
(***************************************************************************)
\* the symbol that decode_symbol turns into the byte b: the pair of bit 7 - i
\* at the symbol bits 15 - 2i and 14 - 2i
SymbolOf(b) ==
    LET pair(i) == IF bit_of(b, 7 - i) = 1 THEN 2^(14 - 2 * i) ELSE 2^(15 - 2 * i)
    IN pair(0) + pair(1) + pair(2) + pair(3) + pair(4) + pair(5) + pair(6) + pair(7)

\* pair i of the symbol replaced by the two bits v (0 to 3)
WithPair(symbol, i, v) ==
    symbol - ((symbol \div 2^(14 - 2 * i)) % 4) * 2^(14 - 2 * i) + v * 2^(14 - 2 * i)

\* demod.rs lines 323 and 331: the symbols of the two tests; then all-equal
\* pairs, valid symbols, and valid symbols with one pair made 00 or 11
TestSymbols ==
    {39321, 61680, 0, 65535, 21845, 43690}
        \cup {SymbolOf(b) : b \in {0, 1, 128, 141, 170, 85, 255}}
        \cup {WithPair(SymbolOf(141), i, v) : i \in 0..7, v \in {0, 3}}

InitDecode ==
    /\ man_thr \in {Some(<<a>>) : a \in TestSymbols}
                    \cup {Some(<<a, b>>) : a \in TestSymbols, b \in {39321, 61680, 26214}}
    /\ window = << >> /\ gate = None /\ man_rel = None /\ man_old = None
    /\ extracted = None /\ adsb_packet = None
    /\ demod_pc = "symbols"
    /\ CrcIdle /\ IdentIdle /\ PipeIdle /\ PosIdle /\ CprIdle /\ AppIdle /\ HistIdle

\* demod.rs lines 179-200
DecodePacket ==
    /\ demod_pc = "symbols"
    /\ extracted' = decode_packet(man_thr[1])
    /\ demod_pc' = "decoded"
    /\ UNCHANGED <<window, gate, man_rel, man_thr, man_old, adsb_packet,
                   crcVars, identVars, pipeVars, posVars, cprVars, appVars, histVars>>

NextDecode == DecodePacket

SpecDecode == InitDecode /\ [][NextDecode]_vars

\* pair i (0 the most significant) of a symbol, as the two bits hi lo
PairAt(symbol, i) == (symbol \div 2^(14 - 2 * i)) % 4

ValidSymbol(symbol) == \A i \in 0..7 : PairAt(symbol, i) \in {1, 2}

\* C26: decode_packet returns None whenever some symbol contains an invalid
\* pair (00 or 11), and the decoded bytes only if all symbols are valid.
C26_InvalidPairGivesNone ==
    demod_pc = "decoded" =>
        (extracted = None <=> \E k \in 1..Len(man_thr[1]) : ~ ValidSymbol(man_thr[1][k]))

\* the byte of a symbol when the pair one stands for bit 1 and every other
\* pair for bit 0, the most significant pair first
ByteOfPairs(symbol, one) ==
    LET b(i) == IF PairAt(symbol, i) = one THEN 2^(7 - i) ELSE 0
    IN b(0) + b(1) + b(2) + b(3) + b(4) + b(5) + b(6) + b(7)

DemodStopsAfterDrop ==
    (~ msg_rx_open /\ app_pc = "done") ~> (proc_pc \in {"done", "panicked"})

\* a pass of the source thread's loop made after the process thread dropped
\* its receiver ends the source thread
SourceStopsOnFailedSend ==
    [][(src_pc = "run" /\ ~ raw_rx_open /\ (reads' # reads \/ src_pc' # src_pc)) =>
           src_pc' \in {"done", "panicked"}]_vars

\* C28: after the tracker drops its receiver, the demod stage eventually
\* terminates, and after that the source stage's next send fails and it
\* terminates too.
C28_ShutdownPropagates == DemodStopsAfterDrop /\ SourceStopsOnFailedSend

(***************************************************************************)
(* Tracker: the store                                                      *)
(***************************************************************************)
\* C29: after any sequence of received frames the store holds at most one
\* Aircraft for an icao, and it holds an Aircraft for an icao exactly when a
\* frame of that icao has been received.
C29_OneRecordPerIcao ==
    /\ \A i \in 1..Len(aircraft), j \in 1..Len(aircraft) :
           aircraft[i].icao = aircraft[j].icao => i = j
    /\ {aircraft[k].icao : k \in 1..Len(aircraft)}
           = {handled[k].icao : k \in 1..Len(handled)}

\* three frames of two aircraft have been received, the second aircraft after
\* the first was heard again
C29_Witness ==
    /\ Len(handled) = 3 /\ Len(aircraft) = 2
    /\ handled[1].icao = handled[2].icao
    /\ handled[3].icao # handled[1].icao

(***************************************************************************)
(* Aircraft::handle_packet on its own, as the tests of aircraft.rs lines   *)
(* 217-338 call it: one Aircraft, and packets of its own and of another    *)
(* icao handed to it one after the other.                                  *)
(***************************************************************************)
\* aircraft.rs line 219: the icao of test_aircraft_new, next to those of the frames
TestIcaos == {1193046, 4219421, 8153904}

\* up to MaxFrames packets, the k-th built at time k
PacketRuns ==
    UNION {[1..n -> TrackFrames] : n \in 1..MaxFrames}

InitHandle ==
    /\ \E icao \in TestIcaos : aircraft = <<Aircraft_new(icao, 0)>>
    /\ \E run \in PacketRuns :
          msg_chan = [k \in 1..Len(run) |-> stamp(AdsbPacket_new(run[k]), k)]
    /\ build = "debug" /\ source = "sdr" /\ data = << >> /\ play_i = 0 /\ reads = 0
    /\ src_pc = "idle" /\ raw_chan = << >> /\ raw_tx_open = FALSE /\ raw_rx_open = FALSE
    /\ mag_vec = << >> /\ scan_i = 0 /\ proc_pc = "idle"
    /\ msg_tx_open = FALSE /\ msg_rx_open = FALSE
    /\ printed = << >> /\ display_pc = "idle"
    /\ mode = "Stream" /\ clock = 0 /\ num_packets = 0
    /\ running = FALSE /\ app_pc = "handle" /\ rendered = << >> /\ handled = << >>
    /\ arrivals = 0
    /\ CrcIdle /\ DemodIdle /\ IdentIdle /\ PosIdle /\ CprIdle /\ HistIdle

\* aircraft.handle_packet(packet) with the next packet
HandlePacket ==
    /\ app_pc = "handle" /\ msg_chan # << >>
    /\ aircraft' = <<Aircraft_handle_packet(aircraft[1], Head(msg_chan))>>
    /\ handled' = Append(handled, Head(msg_chan))
    /\ msg_chan' = Tail(msg_chan)
    /\ UNCHANGED <<build, source, data, play_i, reads, src_pc, raw_chan, raw_tx_open,
                   raw_rx_open, mag_vec, scan_i, proc_pc, msg_tx_open, msg_rx_open,
                   printed, display_pc, mode, clock, num_packets, running, app_pc,
                   rendered, arrivals,
                   crcVars, demodVars, identVars, posVars, cprVars, histVars>>

NextHandle == HandlePacket

SpecHandle == InitHandle /\ [][NextHandle]_vars

\* C30: handle_packet with a frame of another icao leaves every field of the
\* aircraft unchanged; the altitude and the position change only with an
\* airborne-position frame of the aircraft's own icao.
C30_ForeignFrameIgnored ==
    [][(app_pc = "handle" /\ handled' # handled) =>
          LET p == Head(msg_chan)
          IN /\ (p.icao # aircraft[1].icao => aircraft'[1] = aircraft[1])
             /\ ((\/ aircraft'[1].altitude # aircraft[1].altitude
                  \/ aircraft'[1].geo_position # aircraft[1].geo_position) =>
                    p.icao = aircraft[1].icao /\ p.msg.kind = "AircraftPosition")
      ]_vars

\* the aircraft 123456 was handed a position frame and an identification
\* frame of other aircraft and is as Aircraft::new made it
C30_Witness ==
    /\ app_pc = "handle" /\ Len(handled) >= 2
    /\ aircraft[1].icao = 1193046
    /\ handled[1].msg.kind = "AircraftPosition"
    /\ handled[2].msg.kind = "AircraftID"
    /\ aircraft[1] = Aircraft_new(1193046, 0)

====
